---- MODULE Spec2Model ----
(***************************************************************************)
(* Version resolution and rendering engine of version-pioneer.            *)
(*                                                                         *)
(* Python strings are modelled as sequences of one-character strings, so   *)
(* that concatenation, prefix tests, splitting and decimal formatting are  *)
(* computed the way the code computes them.  Python's None is the value    *)
(* None below for string-valued fields, NoDistance for the integer field   *)
(* distance, and the string "None" for the VersionDict field dirty (whose  *)
(* other values are "True" and "False").                                   *)
(***************************************************************************)
EXTENDS Integers, Sequences, FiniteSets, TLC

VARIABLES pc, entry, cfg, world, pieces, tried, signals, result, raised,
          rendererRun

vars == <<pc, entry, cfg, world, pieces, tried, signals, result, raised,
         rendererRun>>

(***************************************************************************)
(* Strings                                                                 *)
(***************************************************************************)

\* Python None for Optional[str] fields: distinct from every string, whose
\* elements are all one character long.
None == <<"None">>

\* Optional[int] = None for GitPieces.distance
NoDistance == -1

DigitChars == <<"0", "1", "2", "3", "4", "5", "6", "7", "8", "9">>

HexChars == {"0", "1", "2", "3", "4", "5", "6", "7", "8", "9",
             "a", "b", "c", "d", "e", "f"}

IsDigit(c) == \E i \in 1..10 : DigitChars[i] = c

DigitValue(c) == (CHOOSE i \in 1..10 : DigitChars[i] = c) - 1

\* str(n) / f"{n}" for a non-negative int
RECURSIVE DecNat(_)
DecNat(n) ==
    IF n < 10 THEN <<DigitChars[n + 1]>>
    ELSE DecNat(n \div 10) \o <<DigitChars[(n % 10) + 1]>>

\* f"{n}" for an int
Dec(n) == IF n < 0 THEN <<"-">> \o DecNat(0 - n) ELSE DecNat(n)

\* the value of a non-empty string of decimal digits
RECURSIVE DigitsValue(_)
DigitsValue(s) ==
    IF Len(s) = 0 THEN 0
    ELSE 10 * DigitsValue(SubSeq(s, 1, Len(s) - 1)) + DigitValue(s[Len(s)])

AllDigits(s) == Len(s) > 0 /\ \A i \in 1..Len(s) : IsDigit(s[i])

AllHex(s) == Len(s) > 0 /\ \A i \in 1..Len(s) : s[i] \in HexChars

\* c in s, for a character c
HasChar(s, c) == \E i \in 1..Len(s) : s[i] = c

\* s.startswith(p)
StartsWith(s, p) == Len(p) <= Len(s) /\ SubSeq(s, 1, Len(p)) = p

\* s.endswith(p)
EndsWith(s, p) ==
    Len(p) <= Len(s) /\ SubSeq(s, Len(s) - Len(p) + 1, Len(s)) = p

\* s[n:]
DropFirst(s, n) == SubSeq(s, n + 1, Len(s))

\* s[:n]
TakeFirst(s, n) == IF n >= Len(s) THEN s ELSE SubSeq(s, 1, n)

\* s.find(sub) + 1: the position of the first occurrence of sub, 0 if none
IndexOf(s, sub) ==
    LET hits == {i \in 1..(Len(s) - Len(sub) + 1) :
                     SubSeq(s, i, i + Len(sub) - 1) = sub}
    IN  IF hits = {} THEN 0 ELSE CHOOSE i \in hits : \A j \in hits : i <= j

\* sub in s, for a string sub
HasSub(s, sub) == IndexOf(s, sub) # 0

\* s.split(sep)
RECURSIVE Split(_, _)
Split(s, sep) ==
    LET i == IndexOf(s, sep)
    IN  IF i = 0 THEN <<s>>
        ELSE <<SubSeq(s, 1, i - 1)>> \o Split(DropFirst(s, i + Len(sep) - 1), sep)

\* the number of occurrences of the character c in s
RECURSIVE CountChar(_, _)
CountChar(s, c) ==
    IF Len(s) = 0 THEN 0
    ELSE (IF s[1] = c THEN 1 ELSE 0) + CountChar(Tail(s), c)

\* Python truthiness of an Optional[str]
TruthyStr(s) == s # None /\ s # <<>>

\* Python truthiness of an Optional[int]
TruthyInt(n) == n # NoDistance /\ n # 0

\* a bool as VersionDict carries it
PyBool(b) == IF b THEN "True" ELSE "False"

(***************************************************************************)
(* Literals of the code                                                    *)
(***************************************************************************)

S_master == <<"m", "a", "s", "t", "e", "r">>
S_main == <<"m", "a", "i", "n">>

MASTER_BRANCHES == <<S_master, S_main>>

InMasterBranches(b) == \E i \in 1..Len(MASTER_BRANCHES) : MASTER_BRANCHES[i] = b

S_untagged == <<"0", "+", "u", "n", "t", "a", "g", "g", "e", "d">>
S_dot_dirty == <<".", "d", "i", "r", "t", "y">>
S_dash_dirty == <<"-", "d", "i", "r", "t", "y">>
S_dot_post == <<".", "p", "o", "s", "t">>
S_dot_dev == <<".", "d", "e", "v">>
S_dot_dev0 == <<".", "d", "e", "v", "0">>
S_unknown == <<"u", "n", "k", "n", "o", "w", "n">>
S_0_unknown == <<"0", "+", "u", "n", "k", "n", "o", "w", "n">>
S_unable_to_compute ==
    <<"u", "n", "a", "b", "l", "e", " ", "t", "o", " ", "c", "o", "m", "p",
      "u", "t", "e", " ", "v", "e", "r", "s", "i", "o", "n">>

Styles == {"pep440", "pep440-master", "pep440-branch", "pep440-pre",
           "pep440-post", "pep440-post-branch", "git-describe",
           "git-describe-long", "digits"}


(***************************************************************************)
(* More string functions of the Python library                             *)
(***************************************************************************)

IsSpace(c) == c \in {" ", "\n", "\t", "\r"}

\* s.lstrip(chars), chars a set of characters
RECURSIVE LStripChars(_, _)
LStripChars(s, chars) ==
    IF Len(s) > 0 /\ s[1] \in chars THEN LStripChars(Tail(s), chars) ELSE s

\* s.rstrip()
RECURSIVE RStrip(_)
RStrip(s) ==
    IF Len(s) > 0 /\ IsSpace(s[Len(s)]) THEN RStrip(SubSeq(s, 1, Len(s) - 1))
    ELSE s

\* s.strip()
Strip(s) == RStrip(LStripChars(s, {" ", "\n", "\t", "\r"}))

\* s.splitlines()
SplitLines(s) ==
    IF s = <<>> THEN <<>>
    ELSE LET parts == Split(s, <<"\n">>)
         IN  IF parts[Len(parts)] = <<>> THEN SubSeq(parts, 1, Len(parts) - 1)
             ELSE parts

\* len(s.split()): the number of whitespace-separated words of s, counted
\* by their first characters
CountWords(s) ==
    Cardinality({i \in 1..Len(s) :
                    ~IsSpace(s[i]) /\ (i = 1 \/ IsSpace(s[i - 1]))})

\* s.replace(old, new, 1) for a one-character old
ReplaceFirst(s, old, new) ==
    LET i == IndexOf(s, <<old>>)
    IN  IF i = 0 THEN s
        ELSE SubSeq(s, 1, i - 1) \o new \o DropFirst(s, i)

\* "\n".join(lines)
RECURSIVE JoinLines(_)
JoinLines(lines) ==
    IF Len(lines) = 0 THEN <<>>
    ELSE IF Len(lines) = 1 THEN lines[1]
    ELSE lines[1] \o <<"\n">> \o JoinLines(Tail(lines))

\* x in lines, for a list of strings
InList(lines, x) == \E i \in 1..Len(lines) : lines[i] = x

(***************************************************************************)
(* Process Runner                                                          *)
(***************************************************************************)

\* returncode None of _run_command
NoRc == -1

\* _run_command(commands, args): launches[i] is the outcome of launching
\* commands[i] ("ok", "ENOENT", or another OSError such as "EACCES");
\* proc is what the launched process writes and returns.
RECURSIVE FirstLaunch(_, _)
FirstLaunch(launches, i) ==
    IF i > Len(launches) THEN [kind |-> "notfound", cmd |-> 0]
    ELSE IF launches[i] = "ok" THEN [kind |-> "launched", cmd |-> i]
    ELSE IF launches[i] = "ENOENT" THEN FirstLaunch(launches, i + 1)
    ELSE [kind |-> "oserror", cmd |-> i]

\* RunOutcome that hands the output of a failed command to the caller
RunOutcome_keeps_output(l, proc) ==
    IF l.kind # "launched" THEN [out |-> None, rc |-> NoRc, cmd |-> l.cmd]
    ELSE [out |-> Strip(proc.stdout), rc |-> proc.returncode, cmd |-> l.cmd]

\* what _run_command returns once the launch loop has ended with l
RunOutcome(l, proc) ==
    IF l.kind # "launched" THEN [out |-> None, rc |-> NoRc, cmd |-> l.cmd]
    ELSE IF proc.returncode # 0
    THEN [out |-> None, rc |-> proc.returncode, cmd |-> l.cmd]
    ELSE [out |-> Strip(proc.stdout), rc |-> proc.returncode, cmd |-> l.cmd]

\* _run_command that tries the first candidate only
_run_command_first_only(launches, proc) ==
    RunOutcome(FirstLaunch(TakeFirst(launches, 1), 1), proc)

_run_command(launches, proc) == RunOutcome(FirstLaunch(launches, 1), proc)

(***************************************************************************)
(* The repository as the git executable reports it.  A git world g has     *)
(*   launches   the outcome of launching each name of GIT_COMMANDS         *)
(*   fail       the git command that exits non-zero, or "none"             *)
(*   describe, head, abbrev, containing, date                              *)
(*              what describe, rev-parse HEAD, rev-parse --abbrev-ref HEAD,*)
(*              branch --contains and show -s --format=%ci HEAD write      *)
(*   count      the number of commits reachable from HEAD                  *)
(*   current    what branch --show-current writes (empty when detached)    *)
(*   nWalked    the number of commits git log lists (newest first)         *)
(*   masterAt   the first listed commit that branch `trunk` contains,      *)
(*              0 when none does                                           *)
(*   tagCommit  what rev-list -1 <tag> writes                              *)
(***************************************************************************)

\* length of a full commit id
FullIdLen == 40

\* length of the abbreviated id taken from a full id
ShortIdLen == 7

\* the full id of the i-th commit of the world
Commit(i) == [j \in 1..FullIdLen |-> DigitChars[(i % 10) + 1]]

RECURSIVE CommitLines(_, _)
CommitLines(from, to) ==
    IF from > to THEN <<>> ELSE <<Commit(from)>> \o CommitLines(from + 1, to)

\* what `git branch --contains <commit>` writes
ContainsOut(g, commit) ==
    LET onTrunk == \E i \in 1..g.nWalked :
                       /\ Commit(i) = commit
                       /\ g.masterAt # 0
                       /\ i >= g.masterAt
        mine == IF g.current = <<>> THEN <<>> ELSE <<<<"*", " ">> \o g.current>>
        trunk == IF onTrunk THEN <<<<" ", " ">> \o g.trunk>> ELSE <<>>
    IN  JoinLines(mine \o trunk)

\* stdout and exit code of `git <cmd> <arg>` in the world g
GitProc(g, cmd, arg) ==
    IF g.fail = cmd
    THEN [stdout |-> IF cmd = "rev-parse --abbrev-ref HEAD"
                     THEN <<"H", "E", "A", "D", "\n">> ELSE <<>>,
          returncode |-> 128]
    ELSE [returncode |-> 0,
          stdout |->
            CASE cmd = "rev-parse --git-dir" -> <<".", "g", "i", "t", "\n">>
              [] cmd = "describe" -> g.describe \o <<"\n">>
              [] cmd = "rev-parse HEAD" -> g.head \o <<"\n">>
              [] cmd = "rev-parse --abbrev-ref HEAD" -> g.abbrev \o <<"\n">>
              [] cmd = "branch --contains" -> g.containing \o <<"\n">>
              [] cmd = "rev-list HEAD --left-right" ->
                     JoinLines(CommitLines(1, g.count)) \o <<"\n">>
              [] cmd = "show -s --format=%ci HEAD" -> g.date \o <<"\n">>
              [] cmd = "branch --show-current" -> g.current \o <<"\n">>
              [] cmd = "log" -> JoinLines(CommitLines(1, g.nWalked))
              [] cmd = "branch --contains <commit>" -> ContainsOut(g, arg) \o <<"\n">>
              [] cmd = "rev-list -1" -> g.tagCommit \o <<"\n">>]

\* runner(GIT_COMMANDS, [...]) of GitPieces.from_git
Runner(g, cmd, arg) == _run_command(g.launches, GitProc(g, cmd, arg))

\* the check _run_git_command_or_error makes of what _run_command returned
OrError(r) ==
    IF r.rc # 0 \/ r.out = None
    THEN [exc |-> "NotThisMethodError", out |-> None, rc |-> r.rc]
    ELSE [exc |-> "none", out |-> r.out, rc |-> r.rc]

_run_git_command_or_error(g, cmd, arg) == OrError(Runner(g, cmd, arg))

(***************************************************************************)
(* Branch-Distance Calculator                                              *)
(***************************************************************************)

MasterRaise(e) ==
    [exc |-> e, current_branch |-> None, distance_from_tag_to_master |-> 0,
     distance_from_master |-> 0, master_commit |-> None]

\* [branch.lstrip("* ") for branch in out.splitlines()]
StrippedBranches(lines) ==
    [k \in 1..Len(lines) |-> LStripChars(lines[k], {"*", " "})]

\* any(master_branch_name in branches for master_branch_name in MASTER_BRANCHES)
AnyMaster(branches) ==
    \E m \in 1..Len(MASTER_BRANCHES) : InList(branches, MASTER_BRANCHES[m])

\* the loop of GitMasterDistance.from_git over all_commits[i..]: the commits
\* passed before the first one that a master branch contains.  WalkAt is one
\* iteration, r what `git branch --contains <commit>` gave for all_commits[i].
RECURSIVE WalkToMaster(_, _, _)
RECURSIVE WalkAt(_, _, _, _)
WalkAt(g, all_commits, i, r) ==
    IF r.exc # "none"
    THEN [exc |-> r.exc, distance_from_master |-> i - 1, master_commit |-> None]
    ELSE IF AnyMaster(StrippedBranches(SplitLines(r.out)))
    THEN [exc |-> "none", distance_from_master |-> i - 1,
          master_commit |-> all_commits[i]]
    ELSE WalkToMaster(g, all_commits, i + 1)

WalkToMaster(g, all_commits, i) ==
    IF i > Len(all_commits)
    THEN [exc |-> "none", distance_from_master |-> i - 1, master_commit |-> None]
    ELSE WalkAt(g, all_commits, i,
                _run_git_command_or_error(g, "branch --contains <commit>",
                                          all_commits[i]))

\* MasterMade that counts every walked commit as lying between tag and master
MasterMade_counts_all(current_branch, all_commits, walk, master_commit) ==
    [exc |-> "none",
     current_branch |-> current_branch,
     distance_from_tag_to_master |-> Len(all_commits),
     distance_from_master |-> walk.distance_from_master,
     master_commit |-> master_commit]

\* return cls(...) of GitMasterDistance.from_git
MasterMade(current_branch, all_commits, walk, master_commit) ==
    [exc |-> "none",
     current_branch |-> current_branch,
     distance_from_tag_to_master |-> Len(all_commits) - walk.distance_from_master,
     distance_from_master |-> walk.distance_from_master,
     master_commit |-> master_commit]

\* MasterFromTag that gives up instead of taking the tag's commit for master
MasterFromTag_gives_up(current_branch, all_commits, walk, rev) ==
    MasterRaise("NotThisMethodError")

\* GitMasterDistance.from_git from the rev-list of the tag on: no walked
\* commit is on a master branch and there is a tag of interest
MasterFromTag(current_branch, all_commits, walk, rev) ==
    IF rev.exc # "none" THEN MasterRaise(rev.exc)
    ELSE IF Len(Strip(rev.out)) # FullIdLen THEN MasterRaise("NotThisMethodError")
    ELSE MasterMade(current_branch, all_commits, walk, Strip(rev.out))

\* GitMasterDistance.from_git once the loop has ended with walk
MasterAfterWalk(tag_of_interest, g, current_branch, all_commits, walk) ==
    IF walk.exc # "none" THEN MasterRaise(walk.exc)
    ELSE IF walk.master_commit # None
    THEN MasterMade(current_branch, all_commits, walk, walk.master_commit)
    ELSE IF tag_of_interest = None THEN MasterRaise("NotThisMethodError")
    ELSE MasterFromTag(current_branch, all_commits, walk,
                       _run_git_command_or_error(g, "rev-list -1",
                                                 tag_of_interest))

\* GitMasterDistance.from_git from git log on
MasterAfterLog(tag_of_interest, g, current_branch, log) ==
    IF log.exc # "none" THEN MasterRaise(log.exc)
    ELSE MasterAfterWalk(tag_of_interest, g, current_branch,
                         SplitLines(log.out),
                         WalkToMaster(g, SplitLines(log.out), 1))

\* GitMasterDistance.from_git once `git branch --show-current` gave cur
MasterAfterCurrent(tag_of_interest, g, cur) ==
    IF cur.exc # "none" THEN MasterRaise(cur.exc)
    ELSE IF InMasterBranches(Strip(cur.out))
    THEN MasterRaise("CurrentBranchIsMasterError")
    ELSE MasterAfterLog(tag_of_interest, g, Strip(cur.out),
                        _run_git_command_or_error(g, "log", tag_of_interest))

GitMasterDistance_from_git(tag_of_interest, g) ==
    MasterAfterCurrent(tag_of_interest, g,
                       _run_git_command_or_error(g, "branch --show-current",
                                                 None))

\* GitMasterDistance.master_commit_short
master_commit_short(md) == TakeFirst(md.master_commit, ShortIdLen)


(***************************************************************************)
(* Renderer: GitPieces and its styles.  A GitPieces record p has the       *)
(* fields long, short, branch, dirty, error, distance, closest_fulltag,    *)
(* closest_tag, date.  A renderer returns [exc, v]: the exception it       *)
(* raises ("none" when it returns) and the rendered string.                *)
(***************************************************************************)

Rendered(v) == [exc |-> "none", v |-> v]

RenderRaise(e) == [exc |-> e, v |-> None]

\* _plus_or_dot that answers '+' whatever the tag holds
_plus_or_dot_always_plus(p) == <<"+">>

_plus_or_dot(p) ==
    IF p.closest_tag = None THEN <<"+">>
    ELSE IF HasChar(p.closest_tag, "+") THEN <<".">>
    ELSE <<"+">>

DirtySuffix(p, suffix) == IF p.dirty THEN suffix ELSE <<>>

\* f".g{self.short}"-like pieces
G(short) == <<"g">> \o short

\* _render_pep440 with the dirty flag left out of the test for a local segment
_render_pep440_distance_only(p) ==
    IF TruthyStr(p.closest_tag)
    THEN IF TruthyInt(p.distance)
         THEN p.closest_tag \o _plus_or_dot(p) \o Dec(p.distance) \o <<".">>
                  \o G(p.short) \o DirtySuffix(p, S_dot_dirty)
         ELSE p.closest_tag
    ELSE S_untagged \o <<".">> \o Dec(p.distance) \o <<".">> \o G(p.short)
             \o DirtySuffix(p, S_dot_dirty)

_render_pep440(p) ==
    IF TruthyStr(p.closest_tag)
    THEN IF TruthyInt(p.distance) \/ p.dirty
         THEN p.closest_tag \o _plus_or_dot(p) \o Dec(p.distance) \o <<".">>
                  \o G(p.short) \o DirtySuffix(p, S_dot_dirty)
         ELSE p.closest_tag
    ELSE S_untagged \o <<".">> \o Dec(p.distance) \o <<".">> \o G(p.short)
             \o DirtySuffix(p, S_dot_dirty)

\* RenderWithMaster without the collapse to the tag when both distances are 0
RenderWithMaster_no_collapse(p, master_info) ==
    IF master_info.exc = "CurrentBranchIsMasterError"
    THEN Rendered(_render_pep440(p))
    ELSE IF master_info.exc # "none" THEN RenderRaise(master_info.exc)
    ELSE Rendered((IF TruthyStr(p.closest_tag)
                   THEN p.closest_tag \o _plus_or_dot(p)
                   ELSE S_untagged \o <<".">>)
                      \o Dec(master_info.distance_from_tag_to_master)
                      \o <<".">> \o G(master_commit_short(master_info))
                      \o <<".">> \o Dec(master_info.distance_from_master)
                      \o <<".">> \o G(p.short)
                      \o DirtySuffix(p, S_dot_dirty))

\* _render_pep440_master once GitMasterDistance.from_git gave master_info
RenderWithMaster(p, master_info) ==
    IF master_info.exc = "CurrentBranchIsMasterError"
    THEN Rendered(_render_pep440(p))
    ELSE IF master_info.exc # "none" THEN RenderRaise(master_info.exc)
    ELSE IF /\ master_info.distance_from_tag_to_master = 0
            /\ master_info.distance_from_master = 0
    THEN Rendered(IF TruthyStr(p.closest_tag) THEN p.closest_tag
                  ELSE S_untagged)
    ELSE Rendered((IF TruthyStr(p.closest_tag)
                   THEN p.closest_tag \o _plus_or_dot(p)
                   ELSE S_untagged \o <<".">>)
                      \o Dec(master_info.distance_from_tag_to_master)
                      \o <<".">> \o G(master_commit_short(master_info))
                      \o <<".">> \o Dec(master_info.distance_from_master)
                      \o <<".">> \o G(p.short)
                      \o DirtySuffix(p, S_dot_dirty))

_render_pep440_master(p, g) ==
    RenderWithMaster(p, GitMasterDistance_from_git(p.closest_fulltag, g))

\* Dev0 that marks every branch, master and main too
Dev0_every_branch(p) == S_dot_dev0

Dev0(p) == IF InMasterBranches(p.branch) THEN <<>> ELSE S_dot_dev0

_render_pep440_branch(p) ==
    IF TruthyStr(p.closest_tag)
    THEN IF TruthyInt(p.distance) \/ p.dirty
         THEN p.closest_tag \o Dev0(p) \o _plus_or_dot(p) \o Dec(p.distance)
                  \o <<".">> \o G(p.short) \o DirtySuffix(p, S_dot_dirty)
         ELSE p.closest_tag
    ELSE <<"0">> \o Dev0(p) \o <<"+", "u", "n", "t", "a", "g", "g", "e", "d", ".">>
             \o Dec(p.distance) \o <<".">> \o G(p.short)
             \o DirtySuffix(p, S_dot_dirty)

\* int(x): the exception raised ("none" when x is a decimal integer) and the value
PyInt(x) ==
    IF AllDigits(x) THEN [exc |-> "none", n |-> DigitsValue(x)]
    ELSE IF Len(x) > 1 /\ x[1] = "+" /\ AllDigits(Tail(x))
    THEN [exc |-> "none", n |-> DigitsValue(Tail(x))]
    ELSE IF Len(x) > 1 /\ x[1] = "-" /\ AllDigits(Tail(x))
    THEN [exc |-> "none", n |-> 0 - DigitsValue(Tail(x))]
    ELSE [exc |-> "ValueError", n |-> 0]

\* _pep440_split_post that drops the post number of the tag
_pep440_split_post_no_number(ver) ==
    [exc |-> "none", base |-> Split(ver, S_dot_post)[1], has_post |-> FALSE,
     post |-> 0]

\* [exc, base, has_post, post]: has_post is FALSE where the code returns None
_pep440_split_post(ver) ==
    LET vc == Split(ver, S_dot_post)
        n == IF vc[2] = <<>> THEN [exc |-> "none", n |-> 0] ELSE PyInt(vc[2])
    IN  IF Len(vc) = 2
        THEN [exc |-> n.exc, base |-> vc[1], has_post |-> TRUE, post |-> n.n]
        ELSE [exc |-> "none", base |-> vc[1], has_post |-> FALSE, post |-> 0]

_render_pep440_pre(p) ==
    LET sp == _pep440_split_post(p.closest_tag)
    IN  IF TruthyStr(p.closest_tag)
        THEN IF TruthyInt(p.distance)
             THEN IF sp.exc # "none" THEN RenderRaise(sp.exc)
                  ELSE IF sp.has_post
                  THEN Rendered(sp.base \o S_dot_post \o Dec(sp.post)
                                    \o S_dot_dev \o Dec(p.distance))
                  ELSE Rendered(sp.base \o S_dot_post \o <<"0">>
                                    \o S_dot_dev \o Dec(p.distance))
             ELSE Rendered(p.closest_tag)
        ELSE Rendered(<<"0">> \o S_dot_post \o <<"0">> \o S_dot_dev
                          \o Dec(p.distance))

\* _render_pep440_post with the dirty flag left out of the test for a suffix
_render_pep440_post_distance_only(p) ==
    IF TruthyStr(p.closest_tag)
    THEN IF TruthyInt(p.distance)
         THEN p.closest_tag \o S_dot_post \o Dec(p.distance) \o _plus_or_dot(p)
                  \o G(p.short) \o DirtySuffix(p, S_dot_dirty)
         ELSE p.closest_tag
    ELSE <<"0">> \o S_dot_post \o Dec(p.distance) \o <<"+">> \o G(p.short)
             \o DirtySuffix(p, S_dot_dirty)

_render_pep440_post(p) ==
    IF TruthyStr(p.closest_tag)
    THEN IF TruthyInt(p.distance) \/ p.dirty
         THEN p.closest_tag \o S_dot_post \o Dec(p.distance) \o _plus_or_dot(p)
                  \o G(p.short) \o DirtySuffix(p, S_dot_dirty)
         ELSE p.closest_tag
    ELSE <<"0">> \o S_dot_post \o Dec(p.distance) \o <<"+">> \o G(p.short)
             \o DirtySuffix(p, S_dot_dirty)

_render_pep440_post_branch(p) ==
    IF TruthyStr(p.closest_tag)
    THEN IF TruthyInt(p.distance) \/ p.dirty
         THEN p.closest_tag \o S_dot_post \o Dec(p.distance) \o Dev0(p)
                  \o _plus_or_dot(p) \o G(p.short)
                  \o DirtySuffix(p, S_dot_dirty)
         ELSE p.closest_tag
    ELSE <<"0">> \o S_dot_post \o Dec(p.distance) \o Dev0(p) \o <<"+">>
             \o G(p.short) \o DirtySuffix(p, S_dot_dirty)

_render_git_describe(p) ==
    (IF TruthyStr(p.closest_tag)
     THEN IF TruthyInt(p.distance)
          THEN p.closest_tag \o <<"-">> \o Dec(p.distance) \o <<"-">> \o G(p.short)
          ELSE p.closest_tag
     ELSE p.short)
    \o DirtySuffix(p, S_dash_dirty)

\* _render_git_describe_long that drops the distance and the hash at distance 0
_render_git_describe_long_short(p) ==
    (IF TruthyStr(p.closest_tag)
     THEN IF TruthyInt(p.distance)
          THEN p.closest_tag \o <<"-">> \o Dec(p.distance) \o <<"-">> \o G(p.short)
          ELSE p.closest_tag
     ELSE p.short)
    \o DirtySuffix(p, S_dash_dirty)

_render_git_describe_long(p) ==
    (IF TruthyStr(p.closest_tag)
     THEN p.closest_tag \o <<"-">> \o Dec(p.distance) \o <<"-">> \o G(p.short)
     ELSE p.short)
    \o DirtySuffix(p, S_dash_dirty)

\* _render_digits that does not count a dirty tree as one more commit
_render_digits_plain(p) ==
    LET closest_tag == IF TruthyStr(p.closest_tag) THEN p.closest_tag ELSE <<"0">>
    IN  IF TruthyStr(p.error) THEN RenderRaise("ValueError")
        ELSE IF TruthyInt(p.distance) \/ p.dirty
        THEN Rendered(closest_tag \o <<".">> \o Dec(p.distance))
        ELSE Rendered(closest_tag)

\* _render_digits with an empty base where there is no tag
_render_digits_empty_base(p) ==
    LET closest_tag == IF TruthyStr(p.closest_tag) THEN p.closest_tag ELSE <<>>
    IN  IF TruthyStr(p.error) THEN RenderRaise("ValueError")
        ELSE IF TruthyInt(p.distance) \/ p.dirty
        THEN IF p.dirty
             THEN Rendered(closest_tag \o <<".">> \o Dec(p.distance + 1))
             ELSE Rendered(closest_tag \o <<".">> \o Dec(p.distance))
        ELSE Rendered(closest_tag)

_render_digits(p) ==
    LET closest_tag == IF TruthyStr(p.closest_tag) THEN p.closest_tag ELSE <<"0">>
    IN  IF TruthyStr(p.error) THEN RenderRaise("ValueError")
        ELSE IF TruthyInt(p.distance) \/ p.dirty
        THEN IF p.dirty
             THEN Rendered(closest_tag \o <<".">> \o Dec(p.distance + 1))
             ELSE Rendered(closest_tag \o <<".">> \o Dec(p.distance))
        ELSE Rendered(closest_tag)

NoDict == [version |-> None, full_revisionid |-> None, dirty |-> "None",
           error |-> None, date |-> None]

\* ErrorDict with the version of the resolver's fallback
ErrorDict_0_unknown(p) ==
    [version |-> S_0_unknown, full_revisionid |-> p.long, dirty |-> "None",
     error |-> p.error, date |-> None]

\* ErrorDict that keeps the record's dirty flag and date
ErrorDict_keeps_fields(p) ==
    [version |-> S_unknown, full_revisionid |-> p.long,
     dirty |-> PyBool(p.dirty), error |-> p.error, date |-> p.date]

\* the record GitPieces.render returns for a record with an error
ErrorDict(p) ==
    [version |-> S_unknown, full_revisionid |-> p.long, dirty |-> "None",
     error |-> p.error, date |-> None]

\* the style renderer GitPieces.render dispatches to
\* StyleRender whose pep440-branch asks the repository for the branch
StyleRender_branch_from_git(p, style, g) ==
    CASE style = "pep440" -> Rendered(_render_pep440(p))
      [] style = "pep440-master" -> _render_pep440_master(p, g)
      [] style = "pep440-branch" ->
             Rendered(_render_pep440_branch([p EXCEPT !.branch = g.current]))
      [] style = "pep440-pre" -> _render_pep440_pre(p)
      [] style = "pep440-post" -> Rendered(_render_pep440_post(p))
      [] style = "pep440-post-branch" -> Rendered(_render_pep440_post_branch(p))
      [] style = "git-describe" -> Rendered(_render_git_describe(p))
      [] style = "git-describe-long" -> Rendered(_render_git_describe_long(p))
      [] style = "digits" -> _render_digits(p)

StyleRender(p, style, g) ==
    CASE style = "pep440" -> Rendered(_render_pep440(p))
      [] style = "pep440-master" -> _render_pep440_master(p, g)
      [] style = "pep440-branch" -> Rendered(_render_pep440_branch(p))
      [] style = "pep440-pre" -> _render_pep440_pre(p)
      [] style = "pep440-post" -> Rendered(_render_pep440_post(p))
      [] style = "pep440-post-branch" -> Rendered(_render_pep440_post_branch(p))
      [] style = "git-describe" -> Rendered(_render_git_describe(p))
      [] style = "git-describe-long" -> Rendered(_render_git_describe_long(p))
      [] style = "digits" -> _render_digits(p)

\* the end of GitPieces.render, r what the style renderer gave
RenderedDict(p, style, r) ==
    IF r.exc # "none" THEN [exc |-> r.exc, ran |-> style, dict |-> NoDict]
    ELSE [exc |-> "none", ran |-> style,
          dict |-> [version |-> r.v, full_revisionid |-> p.long,
                    dirty |-> PyBool(p.dirty), error |-> None, date |-> p.date]]

\* GitPieces.render(style) in the git world g: [exc, dict, ran], where ran
\* names the style renderer that ran ("none" when none did)
render(p, style, g) ==
    IF TruthyStr(p.error)
    THEN [exc |-> "none", ran |-> "none", dict |-> ErrorDict(p)]
    ELSE IF style \notin Styles
    THEN [exc |-> "ValueError", ran |-> "none", dict |-> NoDict]
    ELSE RenderedDict(p, style, StyleRender(p, style, g))

(***************************************************************************)
(* Describe Parser: GitPieces.from_git                                     *)
(***************************************************************************)

S_HEAD == <<"H", "E", "A", "D">>

S_unable_to_parse ==
    <<"u", "n", "a", "b", "l", "e", " ", "t", "o", " ", "p", "a", "r", "s",
      "e", " ", "g", "i", "t", "-", "d", "e", "s", "c", "r", "i", "b", "e",
      " ", "o", "u", "t", "p", "u", "t", ":", " ", "'">>

S_tag_quote == <<"t", "a", "g", " ", "'">>

S_doesnt_start ==
    <<"'", " ", "d", "o", "e", "s", "n", "'", "t", " ", "s", "t", "a", "r",
      "t", " ", "w", "i", "t", "h", " ", "p", "r", "e", "f", "i", "x", " ",
      "'">>

\* the position of the last "-" of s before position `before`, 0 if none
LastHyphen(s, before) ==
    LET hy == {i \in 1..(before - 1) : i <= Len(s) /\ s[i] = "-"}
    IN  IF hy = {} THEN 0 ELSE CHOOSE i \in hy : \A j \in hy : j <= i

\* the position of the first "-" of s after position `after`, 0 if none
FirstHyphen(s, after) ==
    LET hy == {i \in (after + 1)..Len(s) : s[i] = "-"}
    IN  IF hy = {} THEN 0 ELSE CHOOSE i \in hy : \A j \in hy : i <= j

\* DescribeMatch that splits at the first two hyphens, from the left
DescribeMatch_from_left(s) ==
    LET p1 == FirstHyphen(s, 0)
        p2 == FirstHyphen(s, p1)
        hex == DropFirst(s, p2 + 1)
        num == SubSeq(s, p1 + 1, p2 - 1)
        tag == SubSeq(s, 1, p1 - 1)
    IN  IF /\ p2 # 0
           /\ p1 # 0
           /\ p2 < Len(s)
           /\ s[p2 + 1] = "g"
           /\ AllHex(hex)
           /\ AllDigits(num)
           /\ Len(tag) > 0
           /\ ~HasChar(tag, "\n")
        THEN [matched |-> TRUE, tag |-> tag, num |-> num, hex |-> hex]
        ELSE [matched |-> FALSE, tag |-> None, num |-> None, hex |-> None]

\* re.search(r"^(.+)-(\d+)-g([0-9a-f]+)$", s): [matched, tag, num, hex]
DescribeMatch(s) ==
    LET p2 == LastHyphen(s, Len(s) + 1)
        p1 == LastHyphen(s, p2)
        hex == DropFirst(s, p2 + 1)
        num == SubSeq(s, p1 + 1, p2 - 1)
        tag == SubSeq(s, 1, p1 - 1)
    IN  IF /\ p2 # 0
           /\ p1 # 0
           /\ p2 < Len(s)
           /\ s[p2 + 1] = "g"
           /\ AllHex(hex)
           /\ AllDigits(num)
           /\ Len(tag) > 0
           /\ ~HasChar(tag, "\n")
        THEN [matched |-> TRUE, tag |-> tag, num |-> num, hex |-> hex]
        ELSE [matched |-> FALSE, tag |-> None, num |-> None, hex |-> None]

\* BranchFromContaining that takes the first listed branch, trunk or not
BranchFromContaining_first_listed(out) ==
    LET split == Split(out, <<"\n">>)
        kept == IF HasChar(split[1], "(") THEN Tail(split) ELSE split
    IN  IF Len(kept) = 0 THEN None ELSE LStripChars(kept[1], {"*", " "})

\* the branch GitPieces.from_git picks from the output of `git branch --contains`
BranchFromContaining(out) ==
    LET split == Split(out, <<"\n">>)
        kept == IF HasChar(split[1], "(") THEN Tail(split) ELSE split
        branches == [k \in 1..Len(kept) |-> LStripChars(kept[k], {"*", " "})]
        masters == {m \in 1..Len(MASTER_BRANCHES) :
                        InList(branches, MASTER_BRANCHES[m])}
    IN  IF Len(branches) = 0 THEN None
        ELSE IF masters # {}
        THEN MASTER_BRANCHES[CHOOSE m \in masters : \A k \in masters : m <= k]
        ELSE branches[1]

\* date.strip().replace(" ", "T", 1).replace(" ", "", 1) of the last line
NormalDate(out) ==
    LET lines == SplitLines(Strip(out))
        date == lines[Len(lines)]
    IN  ReplaceFirst(ReplaceFirst(Strip(date), " ", <<"T">>), " ", <<>>)

NoPieces ==
    [long |-> None, short |-> None, branch |-> None, dirty |-> FALSE,
     error |-> None, distance |-> NoDistance, closest_fulltag |-> None,
     closest_tag |-> None, date |-> None]

FromGitRaise(e) == [exc |-> e, p |-> NoPieces]

\* the end of GitPieces.from_git: the commit date, show what `git show -s
\* --format=%ci HEAD` gave
FromGitDated(p, show) ==
    IF show.out = None THEN FromGitRaise("AssertionError")
    ELSE IF SplitLines(Strip(show.out)) = <<>> THEN FromGitRaise("IndexError")
    ELSE [exc |-> "none", p |-> [p EXCEPT !.date = NormalDate(show.out)]]

\* GitPieces.from_git, "HEX: no tags": revlist what `git rev-list HEAD
\* --left-right` gave
FromGitUntagged(g, base, revlist) ==
    IF revlist.out = None THEN FromGitRaise("AssertionError")
    ELSE FromGitDated([base EXCEPT !.distance = CountWords(revlist.out)],
                      Runner(g, "show -s --format=%ci HEAD", None))

\* FromGitTagged that signals not-applicable on a tag without the prefix
FromGitTagged_mismatch_signals(tag_prefix, g, describe_out, base, mo) ==
    IF ~mo.matched
    THEN [exc |-> "none",
          p |-> [base EXCEPT !.error = S_unable_to_parse \o describe_out
                                           \o <<"'">>]]
    ELSE IF ~StartsWith(mo.tag, tag_prefix)
    THEN FromGitRaise("NotThisMethodError")
    ELSE FromGitDated([base EXCEPT
                          !.closest_fulltag = mo.tag,
                          !.closest_tag = DropFirst(mo.tag, Len(tag_prefix)),
                          !.distance = DigitsValue(mo.num),
                          !.short = mo.hex],
                      Runner(g, "show -s --format=%ci HEAD", None))

\* GitPieces.from_git, "TAG-NUM-gHEX": mo the match of the describe pattern
FromGitTagged(tag_prefix, g, describe_out, base, mo) ==
    IF ~mo.matched
    THEN [exc |-> "none",
          p |-> [base EXCEPT !.error = S_unable_to_parse \o describe_out
                                           \o <<"'">>]]
    ELSE IF ~StartsWith(mo.tag, tag_prefix)
    THEN [exc |-> "none",
          p |-> [base EXCEPT !.error = S_tag_quote \o mo.tag \o S_doesnt_start
                                           \o tag_prefix \o <<"'">>]]
    ELSE FromGitDated([base EXCEPT
                          !.closest_fulltag = mo.tag,
                          !.closest_tag = DropFirst(mo.tag, Len(tag_prefix)),
                          !.distance = DigitsValue(mo.num),
                          !.short = mo.hex],
                      Runner(g, "show -s --format=%ci HEAD", None))

\* git_describe of GitPieces.from_git: describe_out without a -dirty suffix
StripDirty(describe_out) ==
    IF EndsWith(describe_out, S_dash_dirty)
    THEN SubSeq(describe_out, 1, Len(describe_out) - Len(S_dash_dirty))
    ELSE describe_out

\* GitPieces.from_git from "parse describe_out" on, the branch being known
FromGitParse(tag_prefix, g, describe_out, base) ==
    IF HasChar(StripDirty(describe_out), "-")
    THEN FromGitTagged(tag_prefix, g, describe_out, base,
                       DescribeMatch(StripDirty(describe_out)))
    ELSE FromGitUntagged(g, base,
                         Runner(g, "rev-list HEAD --left-right", None))

\* the pieces GitPieces.from_git has filled in before it parses describe_out
BasePieces(describe_out, full_out, branch_name) ==
    [long |-> full_out, short |-> TakeFirst(full_out, ShortIdLen),
     branch |-> branch_name, dirty |-> EndsWith(describe_out, S_dash_dirty),
     error |-> None, distance |-> NoDistance, closest_fulltag |-> None,
     closest_tag |-> None, date |-> None]

\* GitPieces.from_git on a detached HEAD: contains what `git branch
\* --contains` gave
FromGitDetached(tag_prefix, g, describe_out, full_out, contains) ==
    IF contains.rc # 0 \/ contains.out = None
    THEN FromGitRaise("NotThisMethodError")
    ELSE FromGitParse(tag_prefix, g, describe_out,
                      BasePieces(describe_out, full_out,
                                 BranchFromContaining(contains.out)))

\* GitPieces.from_git once `git rev-parse --abbrev-ref HEAD` gave abbrev
FromGitBranch(tag_prefix, g, describe_out, full_out, abbrev) ==
    IF abbrev.rc # 0 \/ abbrev.out = None
    THEN FromGitRaise("NotThisMethodError")
    ELSE IF Strip(abbrev.out) = S_HEAD
    THEN FromGitDetached(tag_prefix, g, describe_out, full_out,
                         Runner(g, "branch --contains", None))
    ELSE FromGitParse(tag_prefix, g, describe_out,
                      BasePieces(describe_out, full_out, Strip(abbrev.out)))

\* GitPieces.from_git once `git rev-parse HEAD` gave full
FromGitFull(tag_prefix, g, describe_out, full) ==
    IF full.out = None THEN FromGitRaise("NotThisMethodError")
    ELSE FromGitBranch(tag_prefix, g, describe_out, Strip(full.out),
                       Runner(g, "rev-parse --abbrev-ref HEAD", None))

\* GitPieces.from_git once `git describe` gave desc
FromGitDescribed(tag_prefix, g, desc) ==
    IF desc.out = None THEN FromGitRaise("NotThisMethodError")
    ELSE FromGitFull(tag_prefix, g, Strip(desc.out),
                     Runner(g, "rev-parse HEAD", None))

\* GitPieces.from_git once `git rev-parse --git-dir` gave gitdir
FromGitInRepo(tag_prefix, g, gitdir) ==
    IF gitdir.rc # 0 THEN FromGitRaise("NotThisMethodError")
    ELSE FromGitDescribed(tag_prefix, g, Runner(g, "describe", None))

\* GitPieces.from_git(tag_prefix, cwd=...) in the git world g: [exc, p]
from_git(tag_prefix, g) ==
    FromGitInRepo(tag_prefix, g, Runner(g, "rev-parse --git-dir", None))


(***************************************************************************)
(* The file system above the working directory.  A file system fs has      *)
(*   dirs        the directories from cwd upward, each [name, files]; the  *)
(*               file system root, whose name is empty, lies above the last*)
(*   pyproject   what pyproject.toml holds: whether it has a               *)
(*               [tool.version-pioneer] line, project.name and the four    *)
(*               project.urls keys the code reads (None: key missing)      *)
(*   pkg_version the Version header of PKG-INFO (None: no such header)     *)
(*   tomllib     whether tomllib or tomli can be imported                  *)
(***************************************************************************)

Returned(d) == [exc |-> "none", dict |-> d]

Raise(e) == [exc |-> e, dict |-> NoDict]

\* _find_root_dir_with_file: the position in fs.dirs of the first directory
\* holding one of the markers, 0 for FileNotFoundError
_find_root_dir_with_file(fs, marker) ==
    LET hits == {i \in 1..Len(fs.dirs) : fs.dirs[i].files \cap marker # {}}
    IN  IF hits = {} THEN 0 ELSE CHOOSE i \in hits : \A j \in hits : i <= j

get_version_from_pkg_info(fs) ==
    LET project_root == _find_root_dir_with_file(fs, {"PKG-INFO"})
    IN  IF project_root = 0 THEN Raise("NotThisMethodError")
        ELSE IF "pyproject.toml" \notin fs.dirs[project_root].files
        THEN Raise("NotThisMethodError")
        ELSE IF ~fs.pyproject.section THEN Raise("NotThisMethodError")
        ELSE IF ~TruthyStr(fs.pkg_version) THEN Raise("NotThisMethodError")
        ELSE Returned([version |-> fs.pkg_version, full_revisionid |-> None,
                       dirty |-> "False", error |-> None, date |-> None])

\* VersionPatternMatches that accepts every remainder
VersionPatternMatches_any(s) == TRUE

\* re.match(_VERSION_PATTERN, s, re.VERBOSE): every group after the release
\* segment is optional and the match is anchored at the start only, so it
\* succeeds exactly when a digit follows the optional "v"
VersionPatternMatches(s) ==
    \/ Len(s) >= 1 /\ IsDigit(s[1])
    \/ Len(s) >= 2 /\ s[1] = "v" /\ IsDigit(s[2])

\* the number of directory names try_parentdir looks at
ParentdirTries == 3

\* the name of the i-th directory from cwd upward; the root's name is empty
DirName(fs, i) == IF i <= Len(fs.dirs) THEN fs.dirs[i].name ELSE <<>>

\* try_parentdir(project_root, parentdir_prefix): the dict, or NoDict for None
RECURSIVE try_parentdir_from(_, _, _, _)
try_parentdir_from(fs, project_root, parentdir_prefix, k) ==
    LET dirname == DirName(fs, project_root)
        version_candidate == DropFirst(dirname, Len(parentdir_prefix))
    IN  IF k > ParentdirTries THEN NoDict
        ELSE IF /\ StartsWith(dirname, parentdir_prefix)
                /\ VersionPatternMatches(version_candidate)
        THEN [version |-> version_candidate, full_revisionid |-> None,
              dirty |-> "False", error |-> None, date |-> None]
        ELSE IF project_root > Len(fs.dirs) THEN NoDict
        ELSE try_parentdir_from(fs, project_root + 1, parentdir_prefix, k + 1)

try_parentdir(fs, project_root, parentdir_prefix) ==
    try_parentdir_from(fs, project_root, parentdir_prefix, 1)

S_github == <<"h", "t", "t", "p", "s", ":", "/", "/", "g", "i", "t", "h", "u",
              "b", ".", "c", "o", "m", "/">>
S_gitlab == <<"h", "t", "t", "p", "s", ":", "/", "/", "g", "i", "t", "l", "a",
              "b", ".", "c", "o", "m", "/">>
S_dot_git == <<".", "g", "i", "t">>

\* get_prefix_from_source_url: None when the URL is on neither host
get_prefix_from_source_url(source_url) ==
    LET url == IF EndsWith(source_url, S_dot_git)
               THEN SubSeq(source_url, 1, Len(source_url) - Len(S_dot_git))
               ELSE source_url
        parts == Split(url, <<"/">>)
    IN  IF ~StartsWith(source_url, S_github) /\ ~StartsWith(source_url, S_gitlab)
        THEN None
        ELSE parts[Len(parts)] \o <<"-">>

try_parentdir_from_source_url(fs, root, source_url) ==
    LET prefix == get_prefix_from_source_url(source_url)
    IN  IF TruthyStr(prefix) THEN try_parentdir(fs, root, prefix) ELSE NoDict

\* try_all_parentdir_in_pyproject_toml: the dict, or NoDict for None
try_all_parentdir_in_pyproject_toml(fs, root) ==
    LET urls == fs.pyproject.urls
        homepage == try_parentdir_from_source_url(fs, root, urls.homepage)
        Homepage == try_parentdir_from_source_url(fs, root, urls.Homepage)
        source == try_parentdir_from_source_url(fs, root, urls.source)
        Source == try_parentdir_from_source_url(fs, root, urls.Source)
    IN  IF urls.homepage # None /\ homepage # NoDict THEN homepage
        ELSE IF urls.Homepage # None /\ Homepage # NoDict THEN Homepage
        ELSE IF urls.source # None /\ source # NoDict THEN source
        ELSE IF urls.Source # None THEN Source
        ELSE IF fs.pyproject.name # None
        THEN try_parentdir(fs, root, fs.pyproject.name \o <<"-">>)
        ELSE NoDict

get_version_from_parentdir(parentdir_prefix, fs) ==
    LET root == _find_root_dir_with_file(fs, {"pyproject.toml", "setup.cfg",
                                              "setup.py"})
        version_dict ==
            IF parentdir_prefix = None
            THEN try_all_parentdir_in_pyproject_toml(fs, root)
            ELSE try_parentdir(fs, root, parentdir_prefix)
    IN  IF root = 0 THEN Raise("NotThisMethodError")
        ELSE IF parentdir_prefix = None /\ ~fs.tomllib
        THEN Raise("NotThisMethodError")
        ELSE IF /\ parentdir_prefix = None
                /\ "pyproject.toml" \notin fs.dirs[root].files
        THEN Raise("FileNotFoundError")
        ELSE IF version_dict # NoDict THEN Returned(version_dict)
        ELSE Raise("NotThisMethodError")

\* UnknownDict with dirty False instead of null
UnknownDict_dirty_false ==
    [version |-> S_0_unknown, full_revisionid |-> None, dirty |-> "False",
     error |-> S_unable_to_compute, date |-> None]

\* the record get_version_dict_with_all_methods returns when no method applies
UnknownDict ==
    [version |-> S_0_unknown, full_revisionid |-> None, dirty |-> "None",
     error |-> S_unable_to_compute, date |-> None]


(***************************************************************************)
(* The resolver of _version.py: get_versions and its strategies.  A set of *)
(* keywords is what _get_keywords returns: the three strings of the file,  *)
(* as written ("$Format:%d$", ...) or as git archive has expanded them.    *)
(***************************************************************************)

S_Format == <<"$", "F", "o", "r", "m", "a", "t">>
S_tag_colon == <<"t", "a", "g", ":", " ">>
S_no_suitable_tags ==
    <<"n", "o", " ", "s", "u", "i", "t", "a", "b", "l", "e", " ", "t", "a",
      "g", "s">>

\* the characters of the strings compared, in code point order
CodePoints ==
    <<" ", "$", "%", "(", ")", "+", ",", "-", ".", "/", "0", "1", "2", "3",
      "4", "5", "6", "7", "8", "9", ":", ">", "A", "B", "C", "D", "E", "F",
      "G", "H", "I", "J", "K", "L", "M", "N", "O", "P", "Q", "R", "S", "T",
      "U", "V", "W", "X", "Y", "Z", "a", "b", "c", "d", "e", "f", "g", "h",
      "i", "j", "k", "l", "m", "n", "o", "p", "q", "r", "s", "t", "u", "v",
      "w", "x", "y", "z">>

\* ord(c)
Ord(c) == CHOOSE i \in 1..Len(CodePoints) : CodePoints[i] = c

\* a < b for strings, the order sorted() uses
StrLess(a, b) ==
    \E k \in 1..(Len(b)) :
        /\ k <= Len(a) + 1
        /\ SubSeq(a, 1, k - 1) = SubSeq(b, 1, k - 1)
        /\ (k = Len(a) + 1 \/ Ord(a[k]) < Ord(b[k]))

\* s.rstrip(chars), chars a set of characters
RECURSIVE RStripChars(_, _)
RStripChars(s, chars) ==
    IF Len(s) > 0 /\ s[Len(s)] \in chars
    THEN RStripChars(SubSeq(s, 1, Len(s) - 1), chars)
    ELSE s

\* s.strip(chars)
StripChars(s, chars) == RStripChars(LStripChars(s, chars), chars)

\* {r.strip() for r in refnames.strip("()").split(",")}
KeywordRefs(refnames) ==
    {Strip(r) : r \in {Split(StripChars(refnames, {"(", ")"}), <<",">>)[i] :
                  i \in 1..Len(Split(StripChars(refnames, {"(", ")"}), <<",">>))}}

\* the set `tags` of _git_versions_from_keywords; tag_prefix is the local
\* variable of that name, which the function sets to "tag: "
KeywordTags(refs, tag_prefix) ==
    IF {r \in refs : StartsWith(r, tag_prefix)} # {}
    THEN {DropFirst(r, Len(tag_prefix)) :
             r \in {q \in refs : StartsWith(q, tag_prefix)}}
    ELSE {r \in refs : \E i \in 1..Len(r) : IsDigit(r[i])}

\* the refs for which the loop over sorted(tags) returns
KeywordPicks(tags, tag_prefix) ==
    {ref \in tags : /\ StartsWith(ref, tag_prefix)
                    /\ Len(ref) > Len(tag_prefix)
                    /\ IsDigit(ref[Len(tag_prefix) + 1])}

\* date.splitlines()[-1].strip().replace(" ", "T", 1).replace(" ", "", 1)
KeywordDate(date) ==
    ReplaceFirst(ReplaceFirst(Strip(SplitLines(date)[Len(SplitLines(date))]),
                              " ", <<"T">>),
                 " ", <<>>)

\* what _git_versions_from_keywords returns, picks being the refs that pass
\* the tests of its loop
KeywordResult(keywords, picks, tag_prefix) ==
    IF picks # {}
    THEN Returned([version |->
                       DropFirst(CHOOSE r \in picks :
                                     \A q \in picks : q = r \/ StrLess(r, q),
                                 Len(tag_prefix)),
                   full_revisionid |-> Strip(keywords.full),
                   dirty |-> "False", error |-> None,
                   date |-> KeywordDate(keywords.date)])
    ELSE Returned([version |-> S_0_unknown,
                   full_revisionid |-> Strip(keywords.full),
                   dirty |-> "False", error |-> S_no_suitable_tags,
                   date |-> None])

\* _git_versions_from_keywords(keywords, tag_prefix): the function assigns
\* "tag: " to tag_prefix before its first use, so the argument is never read
_git_versions_from_keywords(keywords, tag_prefix) ==
    IF SplitLines(keywords.date) = <<>> THEN Raise("IndexError")
    ELSE IF StartsWith(Strip(keywords.refnames), S_Format)
    THEN Raise("NotThisMethodError")
    ELSE KeywordResult(keywords,
                       KeywordPicks(KeywordTags(KeywordRefs(Strip(keywords.refnames)),
                                                S_tag_colon),
                                    S_tag_colon),
                       S_tag_colon)

\* the branch from_vcs picks from the output of `git branch --contains`
VcsBranches(kept) == [k \in 1..Len(kept) |-> DropFirst(kept[k], 2)]

VcsBranchOf(branches) ==
    IF InList(branches, S_master) THEN S_master
    ELSE IF Len(branches) = 0 THEN None
    ELSE branches[1]

VcsBranchFromContaining(out) ==
    VcsBranchOf(VcsBranches(IF HasChar(Split(out, <<"\n">>)[1], "(")
                            THEN Tail(Split(out, <<"\n">>))
                            ELSE Split(out, <<"\n">>)))

\* GitPieces.from_vcs, "TAG-NUM-gHEX": the GitPieces of _version.py has no
\* default for closest_tag and distance, so cls(**pieces) without them is a
\* TypeError
FromVcsTagged(tag_prefix, g, base, mo) ==
    IF ~mo.matched THEN FromGitRaise("TypeError")
    ELSE IF ~StartsWith(mo.tag, tag_prefix) THEN FromGitRaise("TypeError")
    ELSE FromGitDated([base EXCEPT
                          !.closest_tag = DropFirst(mo.tag, Len(tag_prefix)),
                          !.distance = DigitsValue(mo.num),
                          !.short = mo.hex],
                      Runner(g, "show -s --format=%ci HEAD", None))

\* GitPieces.from_vcs from "parse describe_out" on
FromVcsParse(tag_prefix, g, describe_out, base) ==
    IF HasChar(StripDirty(describe_out), "-")
    THEN FromVcsTagged(tag_prefix, g, base,
                       DescribeMatch(StripDirty(describe_out)))
    ELSE FromGitUntagged(g, base,
                         Runner(g, "rev-list HEAD --left-right", None))

\* GitPieces.from_vcs once all of describe, rev-parse HEAD and rev-parse
\* --abbrev-ref HEAD have given output
FromVcsBranch(tag_prefix, g, describe_out, full_out, branch_name) ==
    IF branch_name # S_HEAD
    THEN FromVcsParse(tag_prefix, g, describe_out,
                      BasePieces(describe_out, full_out, branch_name))
    ELSE IF \/ Runner(g, "branch --contains", None).rc # 0
            \/ Runner(g, "branch --contains", None).out = None
    THEN FromGitRaise("NotThisMethodError")
    ELSE FromVcsParse(tag_prefix, g, describe_out,
                      BasePieces(describe_out, full_out,
                                 VcsBranchFromContaining(
                                     Runner(g, "branch --contains", None).out)))

\* GitPieces.from_vcs(tag_prefix, root) in the git world g: [exc, p]
from_vcs(tag_prefix, g) ==
    IF Runner(g, "rev-parse --git-dir", None).rc # 0
    THEN FromGitRaise("NotThisMethodError")
    ELSE IF Runner(g, "describe", None).out = None
    THEN FromGitRaise("NotThisMethodError")
    ELSE IF Runner(g, "rev-parse HEAD", None).out = None
    THEN FromGitRaise("NotThisMethodError")
    ELSE IF \/ Runner(g, "rev-parse --abbrev-ref HEAD", None).rc # 0
            \/ Runner(g, "rev-parse --abbrev-ref HEAD", None).out = None
    THEN FromGitRaise("NotThisMethodError")
    ELSE FromVcsBranch(tag_prefix, g,
                       Strip(Runner(g, "describe", None).out),
                       Strip(Runner(g, "rev-parse HEAD", None).out),
                       Strip(Runner(g, "rev-parse --abbrev-ref HEAD", None).out))

\* GitPieces.render(VersionStyle.pep440) of _version.py
render_vcs_pep440(p) ==
    IF TruthyStr(p.error)
    THEN [exc |-> "none", ran |-> "none", dict |-> ErrorDict(p)]
    ELSE RenderedDict(p, "pep440", Rendered(_render_pep440(p)))

\* the loop of _versions_from_parentdir, root.parent of the file system
\* root being the root itself
RECURSIVE VersionsFromParentdirAt(_, _, _, _)
VersionsFromParentdirAt(fs, root, parentdir_prefix, k) ==
    IF k > ParentdirTries THEN Raise("NotThisMethodError")
    ELSE IF StartsWith(DirName(fs, root), parentdir_prefix)
    THEN Returned([version |-> DropFirst(DirName(fs, root), Len(parentdir_prefix)),
                   full_revisionid |-> None, dirty |-> "False",
                   error |-> None, date |-> None])
    ELSE VersionsFromParentdirAt(fs, IF root > Len(fs.dirs) THEN root ELSE root + 1,
                                 parentdir_prefix, k + 1)

\* _versions_from_parentdir(parentdir_prefix, root): it does not catch the
\* FileNotFoundError of _find_root_dir_with_file
_versions_from_parentdir(parentdir_prefix, fs) ==
    IF _find_root_dir_with_file(fs, {"pyproject.toml", "setup.cfg", "setup.py"}) = 0
    THEN Raise("FileNotFoundError")
    ELSE VersionsFromParentdirAt(fs,
             _find_root_dir_with_file(fs, {"pyproject.toml", "setup.cfg", "setup.py"}),
             parentdir_prefix, 1)


(***************************************************************************)
(* Inputs                                                                  *)
(***************************************************************************)

\* the largest distance of a record
MaxDistance == 10

\* the largest number of commits git log lists
MaxWalked == 2

S_feat == <<"f", "e", "a", "t">>
S_v == <<"v">>
S_myapp_dash == <<"m", "y", "a", "p", "p", "-">>

T_1_2_3 == <<"1", ".", "2", ".", "3">>
T_1_plus_a == <<"1", "+", "a">>

H_1abcdef == <<"1", "a", "b", "c", "d", "e", "f">>
H_abc1234 == <<"a", "b", "c", "1", "2", "3", "4">>

D_ci == <<"2", "0", "2", "4", "-", "0", "1", "-", "0", "2", " ", "0", "3",
          ":", "0", "4", ":", "0", "5", " ", "+", "0", "9", "0", "0">>
D_iso == <<"2", "0", "2", "4", "-", "0", "1", "-", "0", "2", "T", "0", "3",
           ":", "0", "4", ":", "0", "5", "+", "0", "9", "0", "0">>

Tags == {T_1_2_3, T_1_plus_a}

Shorts == {H_1abcdef, H_abc1234}

Distances == {0, 1, 4, MaxDistance}

Branches == {S_master, S_main, S_feat, None}

\* a git world in which every command succeeds, on branch master
PlainGit ==
    [launches |-> <<"ok">>, fail |-> "none",
     describe |-> S_v \o T_1_2_3 \o <<"-", "4", "-", "g">> \o H_1abcdef,
     head |-> Commit(1), abbrev |-> S_master, containing |-> <<"*", " ">> \o S_master,
     count |-> 5, date |-> D_ci, current |-> S_master, trunk |-> S_master,
     nWalked |-> 0, masterAt |-> 0, tagCommit |-> Commit(9)]

\* the commands GitMasterDistance.from_git runs
MasterCommands == {"branch --show-current", "log", "branch --contains <commit>",
                   "rev-list -1"}

\* the git worlds a record's pep440-master rendering may meet: the branch git
\* reports is the record's, or none when HEAD is detached
MasterWorlds(branch) ==
    {[PlainGit EXCEPT !.current = c, !.abbrev = IF c = <<>> THEN S_HEAD ELSE c,
                      !.nWalked = n, !.masterAt = m, !.fail = f, !.trunk = t] :
        <<c, n, m, f, t>> \in
            {q \in ({<<>>} \cup ({branch} \ {None})) \X (0..MaxWalked)
                       \X (0..MaxWalked) \X ({"none"} \cup MasterCommands)
                       \X {S_master, S_main} :
                 /\ q[3] <= q[2]
                 /\ (q[3] = 0 => q[5] = S_master)
                 /\ (q[4] # "none" => q[2] = 1)}}

S_parse_error == S_unable_to_parse \o <<"v", "1", "-", "x", "'">>

\* records with no error
CleanRecords ==
    {[long |-> Commit(1), short |-> h, branch |-> b, dirty |-> d,
      error |-> None, distance |-> n,
      closest_fulltag |-> IF t = None THEN None ELSE S_v \o t,
      closest_tag |-> t, date |-> D_iso] :
        h \in Shorts, b \in Branches, d \in BOOLEAN, n \in Distances,
        t \in Tags \cup {None}}

T_1_0_post2 == <<"1", ".", "0", ".", "p", "o", "s", "t", "2">>
T_1_0_post == <<"1", ".", "0", ".", "p", "o", "s", "t">>
T_1_0_post1_dev2 ==
    <<"1", ".", "0", ".", "p", "o", "s", "t", "1", ".", "d", "e", "v", "2">>

\* tags that carry a post-release segment
PostTags == {T_1_0_post2, T_1_0_post, T_1_0_post1_dev2}

\* records with no error whose tag carries a post-release segment
PostRecords ==
    {[long |-> Commit(1), short |-> H_1abcdef, branch |-> b, dirty |-> d,
      error |-> None, distance |-> n, closest_fulltag |-> S_v \o t,
      closest_tag |-> t, date |-> D_iso] :
        b \in {S_master, S_feat}, d \in BOOLEAN, n \in {0, 4}, t \in PostTags}

\* records with an error: as from_git leaves them, and with every field set
ErrorRecords ==
    {[NoPieces EXCEPT !.long = Commit(1), !.short = TakeFirst(Commit(1), ShortIdLen),
                      !.branch = b, !.dirty = d, !.error = S_parse_error] :
        b \in {S_master, S_feat}, d \in BOOLEAN}
    \cup {[r EXCEPT !.error = S_parse_error] :
             r \in {c \in CleanRecords : c.short = H_1abcdef /\ c.distance = 4}}

\* the configuration a caller of render passes
RenderCfg(style) == [style |-> style, tag_prefix |-> S_v, parentdir_prefix |-> None]

NoFs == [dirs |-> <<>>, pyproject |-> [section |-> FALSE, name |-> None,
                                        urls |-> [homepage |-> None, Homepage |-> None,
                                                  source |-> None, Source |-> None]],
         pkg_version |-> None, tomllib |-> TRUE]

\* the keywords of a file that git archive has not touched
Unexpanded ==
    [refnames |-> S_Format \o <<":", "%", "d", "$">>,
     full |-> S_Format \o <<":", "%", "H", "$">>,
     date |-> S_Format \o <<":", "%", "c", "i", "$">>]

\* the %d expansions of git archive: of a tagged commit, of an untagged one,
\* and of a tagged one by a git older than 1.8.3
V_2_0 == <<"2", ".", "0">>

R_tagged ==
    <<" ", "(", "H", "E", "A", "D", " ", "-", ">", " ">> \o S_master
        \o <<",", " ">> \o S_tag_colon \o S_v \o T_1_2_3 \o <<")">>
R_untagged ==
    <<" ", "(", "H", "E", "A", "D", " ", "-", ">", " ">> \o S_master \o <<")">>
R_old_git ==
    <<"(", "H", "E", "A", "D", ",", " ">> \o S_v \o T_1_2_3 \o <<",", " ">>
        \o S_master \o <<")">>

\* the %d expansion of a commit that carries the tags v2.0rc1 and v2.0
R_two_tags ==
    <<" ", "(", "H", "E", "A", "D", " ", "-", ">", " ">> \o S_master
        \o <<",", " ">> \o S_tag_colon \o S_v \o V_2_0 \o <<"r", "c", "1">>
        \o <<",", " ">> \o S_tag_colon \o S_v \o V_2_0 \o <<")">>

Keywords ==
    {Unexpanded}
    \cup {[refnames |-> r, full |-> Commit(1), date |-> D_ci] :
             r \in {R_tagged, R_untagged, R_old_git, R_two_tags}}
    \cup {[refnames |-> R_tagged, full |-> Commit(1), date |-> <<>>]}

N_myapp == <<"m", "y", "a", "p", "p">>
N_myapp_3_0_0 == S_myapp_dash \o <<"3", ".", "0", ".", "0">>
N_myapp_python == S_myapp_dash \o <<"p", "y", "t", "h", "o", "n">>
N_src == <<"s", "r", "c">>
N_mid == <<"m", "i", "d">>
N_top == <<"t", "o", "p">>
V_3_0_0 == <<"3", ".", "0", ".", "0">>

U_github == S_github \o <<"k", "i", "y", "o", "o", "n", "/">> \o N_myapp \o S_dot_git
U_gitlab == S_gitlab \o <<"k", "i", "y", "o", "o", "n", "/">> \o N_myapp
U_other == <<"h", "t", "t", "p", "s", ":", "/", "/">> \o N_myapp \o <<".", "o", "r", "g">>

\* directory trees, from cwd upward
Trees ==
    {<<>>,
     <<[name |-> N_src, files |-> {}],
       [name |-> N_myapp_3_0_0, files |-> {"pyproject.toml"}]>>,
     <<[name |-> N_src, files |-> {}],
       [name |-> N_myapp_3_0_0, files |-> {"setup.py"}]>>,
     <<[name |-> N_src, files |-> {}],
       [name |-> N_myapp_python, files |-> {"pyproject.toml", "setup.cfg"}]>>,
     <<[name |-> N_myapp_3_0_0, files |-> {"PKG-INFO", "pyproject.toml"}]>>,
     <<[name |-> N_myapp_3_0_0, files |-> {"PKG-INFO"}]>>,
     <<[name |-> N_src, files |-> {"pyproject.toml"}],
       [name |-> N_mid, files |-> {}],
       [name |-> N_myapp_3_0_0, files |-> {}]>>,
     <<[name |-> N_src, files |-> {"pyproject.toml"}],
       [name |-> N_mid, files |-> {}],
       [name |-> N_top, files |-> {}],
       [name |-> N_myapp_3_0_0, files |-> {}]>>}

NoUrls == [homepage |-> None, Homepage |-> None, source |-> None, Source |-> None]

Urls ==
    {NoUrls,
     [NoUrls EXCEPT !.source = U_github],
     [NoUrls EXCEPT !.homepage = U_other, !.Homepage = U_gitlab],
     [NoUrls EXCEPT !.Source = U_other]}

FileSystems ==
    {[dirs |-> t, pyproject |-> [section |-> sec, name |-> n, urls |-> u],
      pkg_version |-> v, tomllib |-> tl] :
        t \in Trees, sec \in BOOLEAN, n \in {None, N_myapp}, u \in Urls,
        v \in {None, <<>>, V_3_0_0}, tl \in BOOLEAN}

\* a file system where PKG-INFO applies, one where only the parent directory
\* does, and one where nothing does
FsPkgInfo ==
    [dirs |-> <<[name |-> N_myapp_3_0_0, files |-> {"PKG-INFO", "pyproject.toml"}]>>,
     pyproject |-> [section |-> TRUE, name |-> N_myapp, urls |-> NoUrls],
     pkg_version |-> V_3_0_0, tomllib |-> TRUE]

FsParentdir ==
    [FsPkgInfo EXCEPT !.dirs = <<[name |-> N_src, files |-> {}],
                                 [name |-> N_myapp_3_0_0,
                                  files |-> {"pyproject.toml"}]>>]

FsKinds == {FsPkgInfo, FsParentdir, NoFs}

O_v1_2_3_0 == S_v \o T_1_2_3 \o <<"-", "0", "-", "g">> \o H_1abcdef
O_v1_2_3_4_dirty == S_v \o T_1_2_3 \o <<"-", "4", "-", "g">> \o H_1abcdef \o S_dash_dirty
O_hex == H_abc1234
O_hex_dirty == H_abc1234 \o S_dash_dirty
T_release_2_0 == <<"r", "e", "l", "e", "a", "s", "e", "-", "2", ".", "0">>
O_release == T_release_2_0 \o <<"-", "3", "-", "g">> \o H_abc1234
O_unparsable == <<"v", "1", "-", "x">>
O_local == S_v \o T_1_plus_a \o <<"-", "4", "-", "g">> \o H_1abcdef

\* what git describe writes
Describes ==
    {O_v1_2_3_0, O_v1_2_3_4_dirty, O_hex, O_hex_dirty, O_release, O_unparsable,
     O_local}

B_detached ==
    <<"*", " ", "(">> \o S_HEAD \o <<" ", "d", "e", "t", "a", "c", "h", "e", "d",
                                     " ", "a", "t", " ">> \o H_abc1234 \o <<")">>

\* what rev-parse --abbrev-ref HEAD and branch --contains write: on master, on
\* a feature branch, and detached on commits of main, of feat, of no branch
\* and of master
Heads ==
    {[abbrev |-> S_master, containing |-> <<"*", " ">> \o S_master],
     [abbrev |-> S_feat, containing |-> <<"*", " ">> \o S_feat],
     [abbrev |-> S_HEAD,
      containing |-> B_detached \o <<"\n", " ", " ">> \o S_feat
                         \o <<"\n", " ", " ">> \o S_main],
     [abbrev |-> S_HEAD, containing |-> B_detached \o <<"\n", " ", " ">> \o S_feat],
     [abbrev |-> S_HEAD,
      containing |-> B_detached \o <<"\n", " ", " ">> \o S_feat
                         \o <<"\n", " ", " ">> \o S_main
                         \o <<"\n", " ", " ">> \o S_master],
     [abbrev |-> S_HEAD, containing |-> B_detached]}

\* the commands GitPieces.from_git runs
FromGitCommands ==
    {"rev-parse --git-dir", "describe", "rev-parse HEAD",
     "rev-parse --abbrev-ref HEAD", "branch --contains",
     "rev-list HEAD --left-right", "show -s --format=%ci HEAD"}

\* the git world of a describe output d at a head h, with nWalked commits
\* listed of which the masterAt-th is the first on master
GitWorld(d, h, n, m) ==
    [PlainGit EXCEPT !.describe = d, !.abbrev = h.abbrev,
                     !.containing = h.containing,
                     !.current = IF h.abbrev = S_HEAD THEN <<>> ELSE h.abbrev,
                     !.nWalked = n, !.masterAt = m]

\* repositories in which every git command succeeds
GoodGits == {GitWorld(d, h, 0, 0) : d \in Describes, h \in Heads}

\* the same with commits between the tag and HEAD, for pep440-master
WalkedGits ==
    {GitWorld(d, h, nm[1], nm[2]) :
        d \in {O_v1_2_3_4_dirty, O_hex},
        h \in {k \in Heads : k.abbrev # S_master},
        nm \in {q \in (1..MaxWalked) \X (0..MaxWalked) : q[2] \in {0, q[1]}}}

\* repositories in which one git command fails, git cannot be launched, or
\* git show writes nothing
BadGits ==
    {[g EXCEPT !.fail = f] :
        g \in {GitWorld(d, h, 1, 0) :
                  d \in {O_v1_2_3_4_dirty, O_hex},
                  h \in {k \in Heads : Len(k.containing) <= Len(B_detached)}},
        f \in FromGitCommands \cup MasterCommands}
    \cup {[PlainGit EXCEPT !.launches = l] :
             l \in {<<"ENOENT">>, <<"EACCES">>, <<"ENOENT", "ENOENT">>,
                    <<"ENOENT", "ok">>, <<"EACCES", "ok">>,
                    <<"ENOENT", "EACCES">>}}
    \cup {[PlainGit EXCEPT !.date = <<>>]}

\* not a repository, and no git executable
NoRepo == [PlainGit EXCEPT !.fail = "rev-parse --git-dir"]
NoGit == [PlainGit EXCEPT !.launches = <<"ENOENT">>]

\* the calls of get_version_dict_with_all_methods: [cfg, world]
Calls ==
    {[cfg |-> [style |-> "pep440", tag_prefix |-> S_v, parentdir_prefix |-> pp],
      world |-> [fs |-> fs, git |-> g, keywords |-> Unexpanded]] :
        pp \in {None, S_myapp_dash}, fs \in FileSystems, g \in {NoRepo, NoGit}}
    \cup
    {[cfg |-> [style |-> st, tag_prefix |-> S_v, parentdir_prefix |-> None],
      world |-> [fs |-> fs, git |-> g, keywords |-> Unexpanded]] :
        st \in Styles, fs \in FsKinds, g \in GoodGits \cup BadGits}
    \cup
    {[cfg |-> [style |-> st, tag_prefix |-> tp, parentdir_prefix |-> None],
      world |-> [fs |-> fs, git |-> g, keywords |-> Unexpanded]] :
        st \in {"pep440", "pep440-master"}, tp \in {<<>>, S_v},
        fs \in {FsParentdir, NoFs}, g \in GoodGits \cup WalkedGits}

\* the calls of get_versions of _version.py, style pep440 as at import
LegacyCalls ==
    {[cfg |-> [style |-> "pep440", tag_prefix |-> S_v, parentdir_prefix |-> pp],
      world |-> [fs |-> fs, git |-> g, keywords |-> kw]] :
        pp \in {None, S_myapp_dash}, kw \in Keywords,
        fs \in {f \in FileSystems : /\ f.pyproject = FsPkgInfo.pyproject
                                    /\ f.pkg_version = None /\ f.tomllib},
        g \in {NoRepo, NoGit} \cup {GitWorld(d, h, 0, 0) :
                                       d \in Describes \ {O_local, O_hex_dirty},
                                       h \in Heads}}


(***************************************************************************)
(* SpecRender: GitPieces.render called on a record                         *)
(***************************************************************************)

InitRender ==
    /\ pc = "render"
    /\ entry = "render"
    /\ pieces \in CleanRecords \cup PostRecords \cup ErrorRecords
    /\ cfg \in {RenderCfg(s) : s \in Styles}
    /\ world \in {[fs |-> NoFs, git |-> g, keywords |-> Unexpanded] :
                     g \in IF cfg.style = "pep440-master"
                           THEN MasterWorlds(pieces.branch)
                           ELSE {PlainGit}}
    /\ tried = <<>>
    /\ signals = <<>>
    /\ result = NoDict
    /\ raised = "none"
    /\ rendererRun = "none"

\* AfterGit that tries the parent directory whatever parentdir_prefix is
AfterGit_always_parentdir == "parentdir"

\* the strategy get_versions goes to when the git strategy has signalled
\* not-applicable: it skips the parent directory when parentdir_prefix is None
AfterGit ==
    IF entry = "get_versions" /\ cfg.parentdir_prefix = None THEN "unknown"
    ELSE "parentdir"

\* GitPieces.render(cfg.style) on pieces has ended with r.  Called by a
\* resolver, a NotThisMethodError of the renderer is caught there and the
\* next strategy is tried; every other exception reaches the caller.
RenderEnds(r) ==
    /\ rendererRun' = r.ran
    /\ IF r.exc = "none"
       THEN /\ result' = r.dict
            /\ raised' = "none"
            /\ pc' = "done"
            /\ signals' = signals
       ELSE IF r.exc = "NotThisMethodError" /\ entry # "render"
       THEN /\ result' = result
            /\ raised' = "none"
            /\ pc' = AfterGit
            /\ signals' = Append(signals, r.exc)
       ELSE /\ result' = result
            /\ raised' = r.exc
            /\ pc' = "done"
            /\ signals' = signals

Render ==
    /\ pc = "render"
    /\ RenderEnds(IF entry = "get_versions" THEN render_vcs_pep440(pieces)
                  ELSE render(pieces, cfg.style, world.git))
    /\ UNCHANGED <<entry, cfg, world, pieces, tried>>

\* the states the repository may have got into when a record is rendered
\* again: HEAD detached or not, commits added, master moved, git log failing
Repos(branch) ==
    {g \in MasterWorlds(branch) :
         /\ g.trunk = S_master
         /\ (g.fail = "none" \/ (g.fail = "log" /\ g.masterAt = 0))}
        \cup {PlainGit}

\* GitPieces.render called again on the same record with the same style, the
\* repository having changed to g in between
RenderAgain ==
    /\ pc = "done"
    /\ entry = "render"
    /\ \E g \in Repos(pieces.branch) :
           /\ world' = [world EXCEPT !.git = g]
           /\ RenderEnds(render(pieces, cfg.style, g))
    /\ UNCHANGED <<entry, cfg, pieces, tried>>

NextRender == Render \/ RenderAgain

SpecRender == InitRender /\ [][NextRender]_vars

(***************************************************************************)
(* Spec: the resolvers get_version_dict_with_all_methods (versionscript.py)*)
(* and get_versions (_version.py), one strategy per step.  tried lists the *)
(* strategies begun, signals the NotThisMethodError each caught `except`   *)
(* has swallowed, raised the exception that reached the caller.            *)
(***************************************************************************)

Init ==
    /\ pc = "idle"
    /\ entry = "none"
    /\ cfg = RenderCfg("pep440")
    /\ world = [fs |-> NoFs, git |-> PlainGit, keywords |-> Unexpanded]
    /\ pieces = NoPieces
    /\ tried = <<>>
    /\ signals = <<>>
    /\ result = NoDict
    /\ raised = "none"
    /\ rendererRun = "none"

\* get_version_dict_with_all_methods(cfg, cwd=cwd) is called
Call ==
    /\ pc = "idle"
    /\ \E c \in Calls : cfg' = c.cfg /\ world' = c.world
    /\ entry' = "get_version_dict_with_all_methods"
    /\ pc' = "pkg_info"
    /\ UNCHANGED <<pieces, tried, signals, result, raised, rendererRun>>

\* get_versions(cfg) is called
CallLegacy ==
    /\ pc = "idle"
    /\ \E c \in LegacyCalls : cfg' = c.cfg /\ world' = c.world
    /\ entry' = "get_versions"
    /\ pc' = "keywords"
    /\ UNCHANGED <<pieces, tried, signals, result, raised, rendererRun>>

\* try: return <strategy> / except NotThisMethodError: pass, the strategy
\* having ended with r; next is the statement after the try
Caught(r, next) ==
    IF r.exc = "none"
    THEN /\ result' = r.dict
         /\ pc' = "done"
         /\ UNCHANGED <<signals, raised>>
    ELSE IF r.exc = "NotThisMethodError"
    THEN /\ signals' = Append(signals, r.exc)
         /\ pc' = next
         /\ UNCHANGED <<result, raised>>
    ELSE /\ raised' = r.exc
         /\ pc' = "done"
         /\ UNCHANGED <<result, signals>>

TryPkgInfo ==
    /\ pc = "pkg_info"
    /\ tried' = Append(tried, "pkg_info")
    /\ Caught(get_version_from_pkg_info(world.fs), "git")
    /\ UNCHANGED <<entry, cfg, world, pieces, rendererRun>>

TryKeywords ==
    /\ pc = "keywords"
    /\ tried' = Append(tried, "keywords")
    /\ Caught(_git_versions_from_keywords(world.keywords, cfg.tag_prefix), "git")
    /\ UNCHANGED <<entry, cfg, world, pieces, rendererRun>>

\* GitPieces.from_git (from_vcs) has ended with r inside the resolver's try
FromGitEnds(r) ==
    IF r.exc = "none"
    THEN /\ pieces' = r.p
         /\ pc' = "render"
         /\ UNCHANGED <<signals, raised>>
    ELSE IF r.exc = "NotThisMethodError"
    THEN /\ signals' = Append(signals, r.exc)
         /\ pc' = AfterGit
         /\ UNCHANGED <<pieces, raised>>
    ELSE /\ raised' = r.exc
         /\ pc' = "done"
         /\ UNCHANGED <<pieces, signals>>

TryGit ==
    /\ pc = "git"
    /\ tried' = Append(tried, "git")
    /\ FromGitEnds(IF entry = "get_versions"
                   THEN from_vcs(cfg.tag_prefix, world.git)
                   ELSE from_git(cfg.tag_prefix, world.git))
    /\ UNCHANGED <<entry, cfg, world, result, rendererRun>>

TryParentdir ==
    /\ pc = "parentdir"
    /\ tried' = Append(tried, "parentdir")
    /\ Caught(IF entry = "get_versions"
              THEN _versions_from_parentdir(cfg.parentdir_prefix, world.fs)
              ELSE get_version_from_parentdir(cfg.parentdir_prefix, world.fs),
              "unknown")
    /\ UNCHANGED <<entry, cfg, world, pieces, rendererRun>>

\* the final return of both resolvers
ReturnUnknown ==
    /\ pc = "unknown"
    /\ result' = UnknownDict
    /\ pc' = "done"
    /\ UNCHANGED <<entry, cfg, world, pieces, tried, signals, raised, rendererRun>>

Next ==
    \/ Call
    \/ CallLegacy
    \/ TryKeywords
    \/ TryPkgInfo
    \/ TryGit
    \/ Render
    \/ TryParentdir
    \/ ReturnUnknown

Spec == Init /\ [][Next]_vars



(***************************************************************************)
(* Properties of the renderer (checked under SpecRender)                   *)
(***************************************************************************)

\* render has returned a VersionDict for a record with no error
RenderedClean(style) ==
    /\ pc = "done"
    /\ entry = "render"
    /\ raised = "none"
    /\ cfg.style = style
    /\ pieces.error = None

V_1_2_3_4_g1abcdef_dirty ==
    <<"1", ".", "2", ".", "3", "+", "4", ".", "g", "1", "a", "b", "c", "d",
      "e", "f", ".", "d", "i", "r", "t", "y">>
V_untagged_10_gabc1234 ==
    <<"0", "+", "u", "n", "t", "a", "g", "g", "e", "d", ".", "1", "0", ".",
      "g", "a", "b", "c", "1", "2", "3", "4">>
V_1_2_3_4 == <<"1", ".", "2", ".", "3", ".", "4">>
V_1_2_3_5 == <<"1", ".", "2", ".", "3", ".", "5">>

\* the separator the claims call SEP
Sep(tag) == IF HasChar(tag, "+") THEN <<".">> ELSE <<"+">>

\* '.dirty' / '-dirty' exactly when dirty
WhenDirty(p, suffix) == IF p.dirty THEN suffix ELSE <<>>

\* C1: style pep440 on a record with no error renders closest_tag alone at
\* distance 0 on a clean tree, otherwise closest_tag SEP <distance>.g<short>
\* with '.dirty' exactly when dirty (SEP '+', or '.' when the tag holds a
\* '+'); with no tag it renders 0+untagged.<distance>.g<short> with '.dirty'
\* exactly when dirty; the three examples of the claim render as stated.
C1_Pep440 ==
    RenderedClean("pep440") =>
        /\ result.version =
             IF pieces.closest_tag # None
             THEN IF pieces.distance = 0 /\ ~pieces.dirty
                  THEN pieces.closest_tag
                  ELSE pieces.closest_tag \o Sep(pieces.closest_tag)
                           \o Dec(pieces.distance) \o <<".", "g">>
                           \o pieces.short \o WhenDirty(pieces, S_dot_dirty)
             ELSE S_untagged \o <<".">> \o Dec(pieces.distance) \o <<".", "g">>
                      \o pieces.short \o WhenDirty(pieces, S_dot_dirty)
        /\ ((pieces.closest_tag = T_1_2_3 /\ pieces.distance = 0 /\ ~pieces.dirty)
               => result.version = T_1_2_3)
        /\ ((pieces.closest_tag = T_1_2_3 /\ pieces.distance = 4
                 /\ pieces.short = H_1abcdef /\ pieces.dirty)
               => result.version = V_1_2_3_4_g1abcdef_dirty)
        /\ ((pieces.closest_tag = None /\ pieces.distance = 10
                 /\ pieces.short = H_abc1234 /\ ~pieces.dirty)
               => result.version = V_untagged_10_gabc1234)

C1_Witness ==
    /\ RenderedClean("pep440")
    /\ pieces.closest_tag = T_1_2_3
    /\ pieces.distance = 4
    /\ pieces.dirty
    /\ result.version = V_1_2_3_4_g1abcdef_dirty

\* C2: for every style, render on a record whose error is set runs no style
\* renderer and returns version 'unknown', the record's error, dirty null,
\* date null and the record's full id.
C2_ErrorRecord ==
    (pc = "done" /\ entry = "render" /\ TruthyStr(pieces.error)) =>
        /\ raised = "none"
        /\ rendererRun = "none"
        /\ result.version = S_unknown
        /\ result.error = pieces.error
        /\ result.dirty = "None"
        /\ result.date = None
        /\ result.full_revisionid = pieces.long

C2_Witness ==
    /\ pc = "done"
    /\ entry = "render"
    /\ cfg.style = "digits"
    /\ pieces.error = S_parse_error
    /\ pieces.closest_tag = T_1_2_3
    /\ pieces.date # None
    /\ result.version = S_unknown

\* C7 as claimed: for every style, the version rendered from an error-free
\* record with no closest tag begins with '0'.
C7_Original ==
    ((\E s \in Styles : RenderedClean(s)) /\ pieces.closest_tag = None)
        => StartsWith(result.version, <<"0">>)

\* C7 as amended: for every style other than git-describe and
\* git-describe-long, the version rendered from an error-free record with no
\* closest tag begins with '0'; those two styles render the short id there.
C7_ZeroPrefix ==
    ((\E s \in Styles : RenderedClean(s)) /\ pieces.closest_tag = None)
        => IF cfg.style \in {"git-describe", "git-describe-long"}
           THEN result.version = pieces.short \o WhenDirty(pieces, S_dash_dirty)
           ELSE StartsWith(result.version, <<"0">>)

C7_Witness ==
    /\ RenderedClean("digits")
    /\ pieces.closest_tag = None
    /\ pieces.distance = 0
    /\ ~pieces.dirty
    /\ result.version = <<"0">>

\* C8: with a tag, git-describe-long renders TAG-<distance>-g<short> at every
\* distance and git-describe renders the bare TAG at distance 0 and
\* TAG-<distance>-g<short> above; with no tag both render the short id alone;
\* both append '-dirty' exactly when dirty.
C8_GitDescribe ==
    /\ RenderedClean("git-describe-long") =>
           result.version =
               (IF pieces.closest_tag # None
                THEN pieces.closest_tag \o <<"-">> \o Dec(pieces.distance)
                         \o <<"-", "g">> \o pieces.short
                ELSE pieces.short) \o WhenDirty(pieces, S_dash_dirty)
    /\ RenderedClean("git-describe") =>
           result.version =
               (IF pieces.closest_tag # None
                THEN IF pieces.distance = 0 THEN pieces.closest_tag
                     ELSE pieces.closest_tag \o <<"-">> \o Dec(pieces.distance)
                              \o <<"-", "g">> \o pieces.short
                ELSE pieces.short) \o WhenDirty(pieces, S_dash_dirty)

C8_Witness ==
    /\ RenderedClean("git-describe-long")
    /\ pieces.closest_tag = T_1_2_3
    /\ pieces.distance = 0
    /\ pieces.short = H_1abcdef
    /\ ~pieces.dirty
    /\ result.version = <<"1", ".", "2", ".", "3", "-", "0", "-", "g", "1",
                          "a", "b", "c", "d", "e", "f">>

\* C9: style digits renders BASE (closest_tag, or '0' with no tag) followed
\* by '.<n>', n = distance + 1 on a dirty tree and distance on a clean one,
\* the segment left out exactly at distance 0 on a clean tree; neither the
\* hash nor a dirty suffix appears; tag 1.2.3 at distance 4 renders 1.2.3.4
\* clean and 1.2.3.5 dirty.
C9_Digits ==
    RenderedClean("digits") =>
        LET base == IF pieces.closest_tag # None THEN pieces.closest_tag
                    ELSE <<"0">>
            n == IF pieces.dirty THEN pieces.distance + 1 ELSE pieces.distance
        IN  /\ result.version =
                 IF pieces.distance = 0 /\ ~pieces.dirty THEN base
                 ELSE base \o <<".">> \o Dec(n)
            /\ ~HasSub(result.version, pieces.short)
            /\ ~HasSub(result.version, <<"d", "i", "r", "t", "y">>)
            /\ ((pieces.closest_tag = T_1_2_3 /\ pieces.distance = 4) =>
                    result.version = IF pieces.dirty THEN V_1_2_3_5
                                     ELSE V_1_2_3_4)

C9_Witness ==
    /\ RenderedClean("digits")
    /\ pieces.closest_tag = T_1_2_3
    /\ pieces.distance = 4
    /\ pieces.dirty
    /\ result.version = V_1_2_3_5

\* the resolver entry points
NewResolver == "get_version_dict_with_all_methods"
LegacyResolver == "get_versions"

\* the orders of the strategies: as claimed, and in the two resolvers
ClaimedOrder == <<"keywords", "git", "pkg_info", "parentdir">>
NewOrder == <<"pkg_info", "git", "parentdir">>
LegacyOrder == <<"keywords", "git", "parentdir">>

IsPrefix(a, b) == Len(a) <= Len(b) /\ SubSeq(b, 1, Len(a)) = a

\* the resolver has returned a VersionDict
Returns == pc = "done" /\ entry \in {NewResolver, LegacyResolver} /\ raised = "none"

\* the strategy begun last has not signalled: it is running or has ended the call
LastHolds == Len(signals) < Len(tried)

\* in the world of the call, PKG-INFO applies / live git inspection applies
PkgInfoApplies == get_version_from_pkg_info(world.fs).exc = "none"
GitApplies ==
    /\ from_git(cfg.tag_prefix, world.git).exc = "none"
    /\ render(from_git(cfg.tag_prefix, world.git).p, cfg.style, world.git).exc = "none"

\* C3 as claimed: the strategies are begun in the order keywords, git,
\* PKG-INFO, parent directory, and when both git and PKG-INFO apply the
\* resolver returns the git-derived VersionDict.
C3_Original ==
    /\ IsPrefix(tried, ClaimedOrder)
    /\ (Returns /\ entry = NewResolver /\ PkgInfoApplies /\ GitApplies) =>
           result = render(from_git(cfg.tag_prefix, world.git).p, cfg.style,
                           world.git).dict

\* C3 as amended: get_version_dict_with_all_methods begins its strategies in
\* the order PKG-INFO, git, parent directory, and get_versions in the order
\* keywords, git, parent directory (the last only with a parentdir_prefix);
\* a strategy is begun only when every one begun before has signalled
\* not-applicable; a returned VersionDict is the one of the strategy begun
\* last; when PKG-INFO applies its VersionDict is returned and git is not run.
C3_Order ==
    /\ entry = NewResolver => IsPrefix(tried, NewOrder)
    /\ entry = LegacyResolver =>
           /\ IsPrefix(tried, LegacyOrder)
           /\ (cfg.parentdir_prefix = None => ~InList(tried, "parentdir"))
    /\ \A i \in 1..Len(signals) : signals[i] = "NotThisMethodError"
    /\ Len(signals) \in {Len(tried) - 1, Len(tried)}
    /\ pc \in {"keywords", "pkg_info", "git", "parentdir", "unknown"} =>
           Len(signals) = Len(tried)
    /\ (Returns /\ LastHolds) =>
           result = CASE tried[Len(tried)] = "pkg_info" ->
                             get_version_from_pkg_info(world.fs).dict
                      [] tried[Len(tried)] = "keywords" ->
                             _git_versions_from_keywords(world.keywords,
                                                         cfg.tag_prefix).dict
                      [] tried[Len(tried)] = "git" ->
                             IF entry = LegacyResolver
                             THEN render_vcs_pep440(pieces).dict
                             ELSE render(pieces, cfg.style, world.git).dict
                      [] tried[Len(tried)] = "parentdir" ->
                             IF entry = LegacyResolver
                             THEN _versions_from_parentdir(cfg.parentdir_prefix,
                                                           world.fs).dict
                             ELSE get_version_from_parentdir(cfg.parentdir_prefix,
                                                             world.fs).dict
    /\ (pc = "done" /\ entry = NewResolver /\ PkgInfoApplies) =>
           /\ tried = <<"pkg_info">>
           /\ raised = "none"
           /\ result = get_version_from_pkg_info(world.fs).dict

\* both PKG-INFO and git apply, and the PKG-INFO version is returned
C3_Witness ==
    /\ pc = "done"
    /\ entry = NewResolver
    /\ PkgInfoApplies
    /\ GitApplies
    /\ world.git.describe = O_v1_2_3_0
    /\ tried = <<"pkg_info">>
    /\ result.version = V_3_0_0

\* C4: when every strategy of get_version_dict_with_all_methods has
\* signalled not-applicable, it returns version '0+unknown', full_revisionid
\* null, dirty null, error 'unable to compute version', date null.
C4_AllFail ==
    (/\ pc = "done"
     /\ entry = NewResolver
     /\ \/ (raised = "none" /\ tried = NewOrder /\ Len(signals) = Len(tried))
        \/ /\ get_version_from_pkg_info(world.fs).exc = "NotThisMethodError"
           /\ \/ from_git(cfg.tag_prefix, world.git).exc = "NotThisMethodError"
              \/ /\ from_git(cfg.tag_prefix, world.git).exc = "none"
                 /\ render(from_git(cfg.tag_prefix, world.git).p, cfg.style,
                           world.git).exc = "NotThisMethodError"
           /\ get_version_from_parentdir(cfg.parentdir_prefix, world.fs).exc
                  = "NotThisMethodError")
        => /\ raised = "none"
           /\ tried = NewOrder
           /\ result.version = S_0_unknown
           /\ result.full_revisionid = None
           /\ result.dirty = "None"
           /\ result.error = S_unable_to_compute
           /\ result.date = None

\* no PKG-INFO, no git executable, a parent directory that does not match
C4_Witness ==
    /\ pc = "done"
    /\ entry = NewResolver
    /\ world.git = NoGit
    /\ cfg.parentdir_prefix = S_myapp_dash
    /\ tried = NewOrder
    /\ signals = <<"NotThisMethodError", "NotThisMethodError", "NotThisMethodError">>
    /\ result.version = S_0_unknown
    /\ result.error = S_unable_to_compute

\* C5: get_version_dict_with_all_methods never raises; every failure of a
\* strategy cascades to the next one and the call returns a VersionDict.
C5_NeverRaises ==
    (pc = "done" /\ entry = NewResolver) => (raised = "none" /\ result # NoDict)

\* C6 as claimed: a VersionDict returned with a non-null error has version
\* 'unknown'.
C6_Original ==
    (Returns /\ result.error # None) => result.version = S_unknown

\* C6 as amended: a VersionDict returned with a non-null error has version
\* 'unknown' and the record's error when GitPieces.render made it from a
\* record with an error, and version '0+unknown' when the keyword strategy
\* made it (error 'no suitable tags') or when the resolver made it after
\* every strategy signalled (error 'unable to compute version').
C6_ErrorVersion ==
    (Returns /\ result.error # None) =>
        IF LastHolds /\ tried[Len(tried)] = "git"
        THEN /\ result.version = S_unknown
             /\ result.error = pieces.error
        ELSE IF LastHolds
        THEN /\ tried[Len(tried)] = "keywords"
             /\ result.version = S_0_unknown
             /\ result.error = S_no_suitable_tags
        ELSE /\ result.version = S_0_unknown
             /\ result.error = S_unable_to_compute

\* the keyword strategy returns '0+unknown' with an error
C6_Witness ==
    /\ pc = "done"
    /\ entry = LegacyResolver
    /\ tried = <<"keywords">>
    /\ world.keywords.refnames = R_tagged
    /\ result.version = S_0_unknown
    /\ result.error = S_no_suitable_tags

\* the describe output of the world parses and its tag lacks cfg.tag_prefix
PrefixMismatch ==
    /\ DescribeMatch(StripDirty(world.git.describe)).matched
    /\ ~StartsWith(DescribeMatch(StripDirty(world.git.describe)).tag,
                   cfg.tag_prefix)

E_release_v ==
    S_tag_quote \o T_release_2_0 \o S_doesnt_start \o S_v \o <<"'">>

\* C10: when git runs and the tag of the describe output does not start with
\* tag_prefix, from_git returns a record whose error names the tag and whose
\* closest_tag and distance are unset; the resolver returns a VersionDict with
\* that error and version 'unknown', runs no style renderer and begins no
\* later strategy.
C10_PrefixMismatch ==
    (/\ entry = NewResolver
     /\ PrefixMismatch
     /\ world.git.launches = <<"ok">>
     /\ world.git.fail \notin FromGitCommands
     /\ InList(tried, "git")
     /\ pc # "git")
        => /\ pc \in {"render", "done"}
           /\ raised = "none"
           /\ tried[Len(tried)] = "git"
           /\ pieces.error =
                  S_tag_quote
                      \o DescribeMatch(StripDirty(world.git.describe)).tag
                      \o S_doesnt_start \o cfg.tag_prefix \o <<"'">>
           /\ HasSub(pieces.error,
                     DescribeMatch(StripDirty(world.git.describe)).tag)
           /\ pieces.closest_tag = None
           /\ pieces.distance = NoDistance
           /\ pc = "done" =>
                  /\ result.error = pieces.error
                  /\ result.version = S_unknown
                  /\ rendererRun = "none"

\* prefix 'v', nearest tag 'release-2.0'
C10_Witness ==
    /\ pc = "done"
    /\ entry = NewResolver
    /\ cfg.tag_prefix = S_v
    /\ world.git.describe = O_release
    /\ world.fs = FsParentdir
    /\ tried = <<"pkg_info", "git">>
    /\ pieces.error = E_release_v
    /\ result.error = E_release_v
    /\ result.version = S_unknown

\* the describe outputs of the form TAG-NUM-gHEX[-dirty], and the bare ones
TaggedOutputs == {O_v1_2_3_0, O_v1_2_3_4_dirty, O_release, O_local}
BareOutputs == {O_hex, O_hex_dirty}

\* GitPieces.from_git has just returned a record to get_version_dict_with_all_methods
FromGitReturned == pc = "render" /\ entry = NewResolver

\* C11: from_git sets dirty exactly when the describe output ends in
\* '-dirty'; of an output TAG-NUM-gHEX[-dirty] whose TAG has the prefix it
\* keeps closest_fulltag = TAG (hyphens included), closest_tag = TAG without
\* the prefix, distance = NUM and short = HEX, so that the output is
\* closest_fulltag-distance-gshort[-dirty] again; of a bare HEX[-dirty] it
\* keeps closest_tag null and distance = the number of commits of HEAD; an
\* output with a hyphen outside the grammar gives the 'unable to parse' record.
C11_DescribeParse ==
    FromGitReturned =>
        /\ pieces.dirty = EndsWith(world.git.describe, S_dash_dirty)
        /\ (/\ world.git.describe \in TaggedOutputs
            /\ StartsWith(world.git.describe, cfg.tag_prefix)) =>
               /\ pieces.error = None
               /\ pieces.closest_fulltag # None
               /\ pieces.closest_fulltag = cfg.tag_prefix \o pieces.closest_tag
               /\ pieces.distance >= 0
               /\ AllHex(pieces.short)
               /\ world.git.describe =
                      pieces.closest_fulltag \o <<"-">> \o Dec(pieces.distance)
                          \o <<"-", "g">> \o pieces.short
                          \o (IF pieces.dirty THEN S_dash_dirty ELSE <<>>)
        /\ (world.git.describe = O_release /\ cfg.tag_prefix = <<>>) =>
               /\ pieces.closest_fulltag = T_release_2_0
               /\ pieces.closest_tag = T_release_2_0
               /\ pieces.distance = 3
               /\ pieces.short = H_abc1234
        /\ world.git.describe \in BareOutputs =>
               /\ pieces.error = None
               /\ pieces.closest_tag = None
               /\ pieces.closest_fulltag = None
               /\ pieces.distance = world.git.count
        /\ world.git.describe = O_unparsable =>
               /\ pieces.error = S_unable_to_parse \o O_unparsable \o <<"'">>
               /\ pieces.closest_tag = None
               /\ pieces.distance = NoDistance

\* a tag with a hyphen, parsed whole
C11_Witness ==
    /\ FromGitReturned
    /\ world.git.describe = O_release
    /\ cfg.tag_prefix = <<>>
    /\ pieces.closest_tag = T_release_2_0
    /\ pieces.distance = 3
    /\ ~pieces.dirty

\* the markers of a project root, and the index in fs.dirs of the nearest
\* directory holding one (0 when there is none)
ProjectMarkers == {"pyproject.toml", "setup.cfg", "setup.py"}
MarkerDir(fs) ==
    IF \E i \in 1..Len(fs.dirs) : fs.dirs[i].files \cap ProjectMarkers # {}
    THEN CHOOSE i \in 1..Len(fs.dirs) :
             /\ fs.dirs[i].files \cap ProjectMarkers # {}
             /\ \A j \in 1..(i - 1) : fs.dirs[j].files \cap ProjectMarkers = {}
    ELSE 0

\* a string that begins like a version: a digit, or "v" and a digit
LooksLikeVersion(r) ==
    \/ Len(r) >= 1 /\ r[1] \in {"0", "1", "2", "3", "4", "5", "6", "7", "8", "9"}
    \/ Len(r) >= 2 /\ r[1] = "v"
           /\ r[2] \in {"0", "1", "2", "3", "4", "5", "6", "7", "8", "9"}

\* the i-th directory of fs is named prefix + a version
NameQualifies(fs, i, prefix) ==
    /\ i <= Len(fs.dirs)
    /\ StartsWith(fs.dirs[i].name, prefix)
    /\ LooksLikeVersion(DropFirst(fs.dirs[i].name, Len(prefix)))

\* the marker directory and its next two ancestors that qualify
QualifyingDirs(fs, prefix) ==
    IF MarkerDir(fs) = 0 THEN {}
    ELSE {i \in MarkerDir(fs)..(MarkerDir(fs) + 2) : NameQualifies(fs, i, prefix)}

\* get_version_from_parentdir has ended under an explicit prefix
ParentdirEnded ==
    /\ entry = NewResolver
    /\ cfg.parentdir_prefix # None
    /\ Len(tried) > 0
    /\ tried[Len(tried)] = "parentdir"

\* C12: with an explicit prefix, get_version_from_parentdir returns, for the
\* nearest of the marker directory and its next two ancestors whose name is
\* the prefix followed by a version, the rest of that name as version with
\* full_revisionid null, dirty false, error null, date null; when none of the
\* three qualifies (or there is no marker directory) it signals
\* not-applicable.
C12_Parentdir ==
    ParentdirEnded =>
        IF QualifyingDirs(world.fs, cfg.parentdir_prefix) # {}
        THEN /\ pc = "done"
             /\ raised = "none"
             /\ \E i \in QualifyingDirs(world.fs, cfg.parentdir_prefix) :
                    /\ \A j \in QualifyingDirs(world.fs, cfg.parentdir_prefix) : i <= j
                    /\ result = [version |-> DropFirst(world.fs.dirs[i].name,
                                                       Len(cfg.parentdir_prefix)),
                                 full_revisionid |-> None, dirty |-> "False",
                                 error |-> None, date |-> None]
        ELSE /\ raised = "none"
             /\ signals[Len(signals)] = "NotThisMethodError"
             /\ Len(signals) = Len(tried)
             /\ pc = "done" => result.version = S_0_unknown

\* 'myapp-3.0.0' two levels above the marker directory resolves to '3.0.0'
C12_Witness ==
    /\ ParentdirEnded
    /\ pc = "done"
    /\ cfg.parentdir_prefix = S_myapp_dash
    /\ Len(world.fs.dirs) = 3
    /\ MarkerDir(world.fs) = 1
    /\ world.fs.dirs[3].name = N_myapp_3_0_0
    /\ result.version = V_3_0_0
    /\ result.full_revisionid = None

\* _git_versions_from_keywords has ended on expanded keywords
KeywordsEnded ==
    /\ entry = LegacyResolver
    /\ Len(tried) > 0
    /\ pc # "keywords"
    /\ ~StartsWith(Strip(world.keywords.refnames), S_Format)
    /\ SplitLines(world.keywords.date) # <<>>

\* the candidates of the keyword strategy that start with cfg.tag_prefix
\* followed by a digit: the refs marked 'tag: ' if there are any, else the
\* refs containing a digit
PrefixedCandidates ==
    KeywordPicks(KeywordTags(KeywordRefs(Strip(world.keywords.refnames)),
                             S_tag_colon),
                 cfg.tag_prefix)

\* C13: on expanded keywords the keyword strategy returns the first, in
\* ascending order, of the candidates that start with tag_prefix and a digit,
\* with the prefix stripped, dirty false, error null and the expanded hash;
\* refnames ' (HEAD -> master, tag: v2.0rc1, tag: v2.0)' with tag_prefix 'v'
\* yield version '2.0'.
C13_KeywordPick ==
    (KeywordsEnded /\ PrefixedCandidates # {}) =>
        /\ pc = "done"
        /\ raised = "none"
        /\ \E r \in PrefixedCandidates :
               /\ \A q \in PrefixedCandidates : q = r \/ StrLess(r, q)
               /\ result.version = DropFirst(r, Len(cfg.tag_prefix))
        /\ result.dirty = "False"
        /\ result.error = None
        /\ result.full_revisionid = Strip(world.keywords.full)
        /\ (world.keywords.refnames = R_two_tags /\ cfg.tag_prefix = S_v) =>
               result.version = V_2_0

\* get_version_dict_with_all_methods has ended; from_git had returned a
\* record with no error and the style asked for is pep440-master
MasterStyleEnded ==
    /\ entry = NewResolver
    /\ pc = "done"
    /\ cfg.style = "pep440-master"
    /\ InList(tried, "git")
    /\ pieces.long # None
    /\ pieces.error = None

\* the branch-distance data of the record cannot be obtained in the world
MasterDataUnavailable ==
    GitMasterDistance_from_git(pieces.closest_fulltag, world.git).exc
        = "NotThisMethodError"

\* C14: when pep440-master is asked for and GitMasterDistance.from_git cannot
\* give the distances, the caller gets the pep440 rendering of the record.
C14_FailClosed ==
    (MasterStyleEnded /\ MasterDataUnavailable) =>
        /\ raised = "none"
        /\ result.version = _render_pep440(pieces)
        /\ result.full_revisionid = pieces.long

\* the branch git reports as current in the world of the rendering
CurrentBranch == world.git.current

\* B: the listed commits passed before the first one on master/main (all of
\* them when none is, the tag then standing for master)
DistanceFromMaster ==
    IF world.git.masterAt # 0 THEN world.git.masterAt - 1 ELSE world.git.nWalked

\* M: the listed commits from the master commit down to the tag
DistanceFromTagToMaster == world.git.nWalked - DistanceFromMaster

\* the commit taken for master
MasterCommit ==
    IF world.git.masterAt # 0 THEN Commit(world.git.masterAt)
    ELSE world.git.tagCommit

V_1_2_3_master_1_1_dirty ==
    <<"1", ".", "2", ".", "3", "+", "1", ".", "g", "2", "2", "2", "2", "2",
      "2", "2", ".", "1", ".", "g", "1", "a", "b", "c", "d", "e", "f", ".",
      "d", "i", "r", "t", "y">>

\* C15: style pep440-master renders as pep440 when git's current branch is
\* master or main; otherwise the tag alone (0+untagged with no tag) when M
\* and B are both 0, and else TAG SEP <M>.g<7 chars of the master commit>
\* .<B>.g<short> (0+untagged. for TAG SEP with no tag) with '.dirty' exactly
\* when dirty.
C15_Pep440Master ==
    RenderedClean("pep440-master") =>
        result.version =
            IF InMasterBranches(CurrentBranch) THEN _render_pep440(pieces)
            ELSE IF DistanceFromTagToMaster = 0 /\ DistanceFromMaster = 0
            THEN (IF pieces.closest_tag # None THEN pieces.closest_tag
                  ELSE S_untagged)
            ELSE (IF pieces.closest_tag # None
                  THEN pieces.closest_tag \o Sep(pieces.closest_tag)
                  ELSE S_untagged \o <<".">>)
                     \o Dec(DistanceFromTagToMaster) \o <<".", "g">>
                     \o TakeFirst(MasterCommit, 7) \o <<".">>
                     \o Dec(DistanceFromMaster) \o <<".", "g">> \o pieces.short
                     \o WhenDirty(pieces, S_dot_dirty)

C15_Witness ==
    /\ RenderedClean("pep440-master")
    /\ CurrentBranch = S_feat
    /\ world.git.nWalked = 2
    /\ world.git.masterAt = 2
    /\ pieces.closest_tag = T_1_2_3
    /\ pieces.short = H_1abcdef
    /\ pieces.dirty
    /\ result.version = V_1_2_3_master_1_1_dirty

\* C16: GitPieces.render returns a VersionDict and raises nothing, for every
\* record with no error and every style.
C16_Total ==
    (pc = "done" /\ entry = "render" /\ pieces.error = None) =>
        /\ raised = "none"
        /\ result.version # None
        /\ result.error = None

\* a step in which render, having ended on the record, ends on it again
RenderedTwice == pc = "done" /\ pc' = "done" /\ entry = "render"

\* C17 as stated: two renderings of a record with one style that both return
\* give the same version, whatever the repository has become in between.
C17_Original ==
    [][(RenderedTwice /\ raised = "none" /\ raised' = "none") =>
           result'.version = result.version]_vars

\* C17: two renderings of a record with one style end alike (same exception,
\* same VersionDict) for every style but pep440-master, and for pep440-master
\* when the repository is in the same state at both.
C17_SameOutput ==
    [][(RenderedTwice /\ (cfg.style # "pep440-master" \/ world'.git = world.git)) =>
           /\ raised' = raised
           /\ (raised = "none" => result' = result)]_vars

\* a record has been rendered again with style pep440 after HEAD was detached
C17_Witness ==
    /\ pc = "done"
    /\ entry = "render"
    /\ raised = "none"
    /\ cfg.style = "pep440"
    /\ world.git # PlainGit
    /\ world.git.current = <<>>
    /\ pieces.closest_tag = T_1_2_3
    /\ pieces.distance = 4
    /\ pieces.dirty
    /\ result.version = V_1_2_3_4_g1abcdef_dirty

Pep440Family ==
    {"pep440", "pep440-master", "pep440-branch", "pep440-pre", "pep440-post",
     "pep440-post-branch"}

\* render has returned for a pep440-family style and a record with no error
\* whose tag is null or holds at most one '+'
RenderedPep440Family ==
    /\ pc = "done"
    /\ entry = "render"
    /\ raised = "none"
    /\ cfg.style \in Pep440Family
    /\ pieces.error = None
    /\ (pieces.closest_tag = None \/ CountChar(pieces.closest_tag, "+") <= 1)

\* C18: a pep440-family rendering of a record whose tag is null or holds at
\* most one '+' holds at most one '+': a tag with a '+' is followed by no
\* other '+' (the local segment is joined with '.'), and a local segment
\* after a tag without '+' is joined with the only '+'.
C18_OnePlus ==
    RenderedPep440Family =>
        /\ CountChar(result.version, "+") <= 1
        /\ ((pieces.closest_tag # None /\ HasChar(pieces.closest_tag, "+")) =>
               /\ StartsWith(result.version, pieces.closest_tag)
               /\ CountChar(result.version, "+") = 1)
        /\ ((cfg.style # "pep440-pre" /\ result.version # pieces.closest_tag) =>
               CountChar(result.version, "+") = 1)

C18_Witness ==
    /\ RenderedPep440Family
    /\ cfg.style = "pep440-post-branch"
    /\ pieces.closest_tag = T_1_plus_a
    /\ pieces.distance = 4
    /\ pieces.dirty
    /\ pieces.branch = S_feat
    /\ CountChar(result.version, "+") = 1
    /\ EndsWith(result.version, <<".", "d", "e", "v", "0", ".", "g">>
                                    \o pieces.short \o S_dot_dirty)

\* the places of tag where a '.post' followed by digits only (or by nothing)
\* begins and runs to the end of the tag
PostSuffixAt(tag) ==
    {i \in 1..Len(tag) :
        /\ i + 4 <= Len(tag)
        /\ SubSeq(tag, i, i + 4) = S_dot_post
        /\ \A k \in (i + 5)..Len(tag) : IsDigit(tag[k])}

\* BASE: the tag with its '.postN' suffix split off
PostBase(tag) ==
    IF PostSuffixAt(tag) = {} THEN tag
    ELSE SubSeq(tag, 1, (CHOOSE i \in PostSuffixAt(tag) : TRUE) - 1)

\* N: the post number of the tag, 0 with no '.post' suffix or no number
PostNumber(tag) ==
    IF PostSuffixAt(tag) = {} THEN 0
    ELSE LET i == CHOOSE j \in PostSuffixAt(tag) : TRUE
         IN  IF i + 4 = Len(tag) THEN 0
             ELSE DigitsValue(SubSeq(tag, i + 5, Len(tag)))

V_1_0_post2_dev4 ==
    <<"1", ".", "0", ".", "p", "o", "s", "t", "2", ".", "d", "e", "v", "4">>

\* C19: style pep440-pre renders the tag unchanged at distance 0, with a tag
\* and distance D > 0 BASE.post<N>.dev<D>, and with no tag 0.post0.dev<D>;
\* nothing of it depends on the dirty flag.
C19_Pep440Pre ==
    RenderedClean("pep440-pre") =>
        result.version =
            IF pieces.closest_tag = None
            THEN <<"0", ".", "p", "o", "s", "t", "0", ".", "d", "e", "v">>
                     \o Dec(pieces.distance)
            ELSE IF pieces.distance = 0 THEN pieces.closest_tag
            ELSE PostBase(pieces.closest_tag) \o S_dot_post
                     \o Dec(PostNumber(pieces.closest_tag)) \o S_dot_dev
                     \o Dec(pieces.distance)

C19_Witness ==
    /\ RenderedClean("pep440-pre")
    /\ pieces.closest_tag = T_1_0_post2
    /\ pieces.distance = 4
    /\ pieces.dirty
    /\ result.version = V_1_0_post2_dev4

\* the local segment of a pep440 rendering is present
LocalSegment(p) == p.closest_tag = None \/ p.distance > 0 \/ p.dirty

\* what stands before the separator of a pep440 rendering: the tag, or '0'
PublicPart(p) == IF p.closest_tag = None THEN <<"0">> ELSE p.closest_tag

\* text with '.dev0' put in right after its first n characters
InsertDev0(text, n) == TakeFirst(text, n) \o S_dot_dev0 \o DropFirst(text, n)

V_1_2_3_dev0_4_g1abcdef_dirty ==
    <<"1", ".", "2", ".", "3", ".", "d", "e", "v", "0", "+", "4", ".", "g",
      "1", "a", "b", "c", "d", "e", "f", ".", "d", "i", "r", "t", "y">>

\* C20: style pep440-branch renders as style pep440 does, with '.dev0' put in
\* right before the separator exactly when the branch is not master/main and
\* the local segment is present; so on master/main the two agree, and a
\* clean record on its tag renders as the tag on any branch.
C20_Pep440Branch ==
    RenderedClean("pep440-branch") =>
        /\ result.version =
               IF ~InMasterBranches(pieces.branch) /\ LocalSegment(pieces)
               THEN InsertDev0(_render_pep440(pieces), Len(PublicPart(pieces)))
               ELSE _render_pep440(pieces)
        /\ (InMasterBranches(pieces.branch) =>
               result.version = _render_pep440(pieces))
        /\ (~LocalSegment(pieces) => result.version = pieces.closest_tag)
        /\ (LocalSegment(pieces) =>
               DropFirst(_render_pep440(pieces), Len(PublicPart(pieces)))[1]
                   \in {"+", "."})

C20_Witness ==
    /\ RenderedClean("pep440-branch")
    /\ pieces.branch = S_feat
    /\ pieces.closest_tag = T_1_2_3
    /\ pieces.distance = 4
    /\ pieces.short = H_1abcdef
    /\ pieces.dirty
    /\ result.version = V_1_2_3_dev0_4_g1abcdef_dirty

\* '.dev0' where style pep440-post-branch puts it: off master/main only
PostDev0 ==
    IF cfg.style = "pep440-post-branch" /\ ~InMasterBranches(pieces.branch)
    THEN S_dot_dev0 ELSE <<>>

V_1_2_3_post4_dev0_g1abcdef_dirty ==
    <<"1", ".", "2", ".", "3", ".", "p", "o", "s", "t", "4", ".", "d", "e",
      "v", "0", "+", "g", "1", "a", "b", "c", "d", "e", "f", ".", "d", "i",
      "r", "t", "y">>

\* C21: style pep440-post renders the tag alone at distance 0 on a clean
\* tree, otherwise TAG.post<distance> SEP g<short> with '.dirty' exactly when
\* dirty, and 0.post<distance>+g<short> with '.dirty' exactly when dirty
\* with no tag; pep440-post-branch renders the same with '.dev0' right
\* before the separator off master/main, and the same string on master/main.
C21_Pep440Post ==
    (RenderedClean("pep440-post") \/ RenderedClean("pep440-post-branch")) =>
        result.version =
            IF pieces.closest_tag # None
            THEN IF pieces.distance = 0 /\ ~pieces.dirty
                 THEN pieces.closest_tag
                 ELSE pieces.closest_tag \o S_dot_post \o Dec(pieces.distance)
                          \o PostDev0 \o Sep(pieces.closest_tag) \o <<"g">>
                          \o pieces.short \o WhenDirty(pieces, S_dot_dirty)
            ELSE <<"0">> \o S_dot_post \o Dec(pieces.distance) \o PostDev0
                     \o <<"+", "g">> \o pieces.short
                     \o WhenDirty(pieces, S_dot_dirty)

C21_Witness ==
    /\ RenderedClean("pep440-post-branch")
    /\ pieces.branch = S_feat
    /\ pieces.closest_tag = T_1_2_3
    /\ pieces.distance = 4
    /\ pieces.short = H_1abcdef
    /\ pieces.dirty
    /\ result.version = V_1_2_3_post4_dev0_g1abcdef_dirty

\* GitMasterDistance.from_git has been run for the record by the
\* pep440-master renderer, on a branch that is not master/main
MasterDistanceRun ==
    /\ pc = "done"
    /\ entry = "render"
    /\ cfg.style = "pep440-master"
    /\ pieces.error = None
    /\ ~InMasterBranches(CurrentBranch)

\* what GitMasterDistance.from_git gives for the record in its world
MasterDistance == GitMasterDistance_from_git(pieces.closest_fulltag, world.git)

\* md has the fork point at the first listed commit on master/main
ForkPointAt(md, k, walked) ==
    /\ md.master_commit = Commit(k)
    /\ md.distance_from_master = k - 1
    /\ md.distance_from_tag_to_master = walked - (k - 1)

\* both distances of md are non-negative and add up to the commits walked
DistancesAddUp(md, walked) ==
    /\ md.distance_from_master >= 0
    /\ md.distance_from_tag_to_master >= 0
    /\ md.distance_from_master + md.distance_from_tag_to_master = walked

\* what C24 asks of a GitMasterDistance md that from_git returned
ForkPointHolds(md) ==
    md.exc = "none" =>
        /\ DistancesAddUp(md, world.git.nWalked)
        /\ (world.git.masterAt # 0 =>
               ForkPointAt(md, world.git.masterAt, world.git.nWalked))

\* C24: off master/main, GitMasterDistance.from_git takes the first listed
\* commit that master or main contains as fork point; distance_from_master
\* counts the listed commits newer than it, distance_from_tag_to_master the
\* others, so both are non-negative and add up to the commits listed.
C24_ForkPoint == MasterDistanceRun => ForkPointHolds(MasterDistance)

C24_Witness ==
    /\ MasterDistanceRun
    /\ raised = "none"
    /\ world.git.nWalked = MaxWalked
    /\ world.git.masterAt = 2
    /\ world.git.trunk = S_main
    /\ MasterDistance.distance_from_master = 1
    /\ MasterDistance.distance_from_tag_to_master = MaxWalked - 1
    /\ MasterDistance.master_commit = Commit(2)

\* what C25 asks of md, what from_git gave with no listed commit on master/main
TagFallbackHolds(md) ==
    IF pieces.closest_fulltag # None
    THEN /\ md.exc = "none"
         /\ md.master_commit = world.git.tagCommit
         /\ Len(md.master_commit) = 40
         /\ md.distance_from_tag_to_master = 0
         /\ md.distance_from_master = world.git.nWalked
    ELSE /\ md.exc = "NotThisMethodError"
         /\ md.master_commit = None
         /\ raised = "NotThisMethodError"

\* C25: when no listed commit is on master/main, GitMasterDistance.from_git
\* takes the tag's commit as fork point (distance_from_tag_to_master 0,
\* distance_from_master the commits listed) if a tag was given, and raises
\* NotThisMethodError if none was.
C25_TagFallback ==
    (MasterDistanceRun /\ world.git.fail = "none" /\ world.git.masterAt = 0) =>
        TagFallbackHolds(MasterDistance)

C25_Witness ==
    /\ MasterDistanceRun
    /\ world.git.fail = "none"
    /\ world.git.masterAt = 0
    /\ world.git.nWalked = MaxWalked
    /\ pieces.closest_fulltag = S_v \o T_1_2_3
    /\ raised = "none"
    /\ MasterDistance.master_commit = Commit(9)
    /\ MasterDistance.distance_from_master = MaxWalked

(***************************************************************************)
(* SpecBuild: a build hook replaces the versionscript of the package by a  *)
(* versionfile, and the packaged file is executed afterwards.  In this      *)
(* specification cfg is the [tool.version-pioneer] table of pyproject.toml  *)
(* (the keys it has) with the mode of the build, entry the hook, and world  *)
(* has the fields                                                           *)
(*   script         the versionscript of the source tree                    *)
(*   repo           the VersionDict the versionscript computes now          *)
(*   build_lib      the _version.py in setuptools' build_lib                *)
(*   force_include  the file hatchling is told to include in its place      *)
(*   at_build       the VersionDict a hook got from the versionscript       *)
(* A python file is [kind, globals, literal]: the names it binds when       *)
(* executed and, for a versionfile, the text of each value of the dict      *)
(* literal that get_version_dict returns.                                   *)
(***************************************************************************)

\* str.__repr__: s with backslashes and the quote q escaped
RECURSIVE Escape(_, _)
Escape(s, q) ==
    IF s = <<>> THEN <<>>
    ELSE (IF s[1] = "\\" \/ s[1] = q THEN <<"\\", s[1]>> ELSE <<s[1]>>)
             \o Escape(Tail(s), q)

\* repr of a str: double quotes when it holds ' and no ", else single quotes
ReprStr(s) ==
    IF HasChar(s, "'") /\ ~HasChar(s, "\"")
    THEN <<"\"">> \o Escape(s, "\"") \o <<"\"">>
    ELSE <<"'">> \o Escape(s, "'") \o <<"'">>

S_None_text == <<"N", "o", "n", "e">>
S_True_text == <<"T", "r", "u", "e">>
S_False_text == <<"F", "a", "l", "s", "e">>

\* repr of a str or None
ReprValue(v) == IF v = None THEN S_None_text ELSE ReprStr(v)

\* repr of True, False or None
ReprBool(b) ==
    CASE b = "True" -> S_True_text
      [] b = "False" -> S_False_text
      [] OTHER -> S_None_text

\* the values of the dict literal that '{version_dict}' formats to
ReprDict(d) ==
    [version |-> ReprValue(d.version),
     full_revisionid |-> ReprValue(d.full_revisionid),
     dirty |-> ReprBool(d.dirty),
     error |-> ReprValue(d.error),
     date |-> ReprValue(d.date)]

\* the characters of a string literal's body with the escapes undone
RECURSIVE Unescape(_)
Unescape(t) ==
    IF t = <<>> THEN <<>>
    ELSE IF t[1] = "\\" /\ Len(t) >= 2
    THEN <<t[2]>> \o Unescape(SubSeq(t, 3, Len(t)))
    ELSE <<t[1]>> \o Unescape(Tail(t))

\* what python evaluates the text of a str literal or of None to
EvalValue(t) ==
    IF t = S_None_text THEN None
    ELSE Unescape(SubSeq(t, 2, Len(t) - 1))

\* what python evaluates the text True, False or None to
EvalBool(t) ==
    CASE t = S_True_text -> "True"
      [] t = S_False_text -> "False"
      [] OTHER -> "None"

\* the dict the literal of a versionfile evaluates to
EvalDict(l) ==
    [version |-> EvalValue(l.version),
     full_revisionid |-> EvalValue(l.full_revisionid),
     dirty |-> EvalBool(l.dirty),
     error |-> EvalValue(l.error),
     date |-> EvalValue(l.date)]

NoLiteral == ReprDict(NoDict)

NoFile == [kind |-> "none", globals |-> {}, literal |-> NoLiteral]

\* version_dict_to_str(version_dict, "python"): EXEC_OUTPUT_PYTHON binds
\* get_version_dict alone (under exec __name__ is not "__main__")
version_dict_to_str_python(version_dict) ==
    [kind |-> "versionfile", globals |-> {"get_version_dict"},
     literal |-> ReprDict(version_dict)]

\* a versionscript like _version.py: it binds the two constants
LegacyScript ==
    [kind |-> "script",
     globals |-> {"get_versions", "__version_dict__", "__version__"},
     literal |-> NoLiteral]

\* a versionscript like versionscript.py: it binds the accessor
AccessorScript ==
    [kind |-> "script",
     globals |-> {"get_version_dict", "get_version_dict_with_all_methods"},
     literal |-> NoLiteral]

\* what executing code binds a dict-valued name to: the literal of a
\* versionfile, what the repository gives for a versionscript
Computed(code, repo) ==
    IF code.kind = "versionfile" THEN EvalDict(code.literal) ELSE repo

\* exec_version_py_code_to_get_version_dict(code) with cwd None
exec_version_py_code_to_get_version_dict(code, repo) ==
    IF "__version_dict__" \in code.globals
    THEN [exc |-> "none", dict |-> Computed(code, repo)]
    ELSE [exc |-> "KeyError", dict |-> NoDict]

\* exec_version_script_code(code)
exec_version_script_code(code, repo) ==
    IF "get_version_dict" \in code.globals
    THEN [exc |-> "none", dict |-> Computed(code, repo)]
    ELSE [exc |-> "KeyError", dict |-> NoDict]

\* get_toml_value(pyproject_toml, ["tool", "version-pioneer", key])
get_toml_value(table, key) ==
    IF key \in table THEN "none" ELSE "InvalidConfigError"

\* pyproject_toml["tool"]["version-pioneer"][key]
Subscript(table, key) == IF key \in table THEN "none" ELSE "KeyError"

\* exec_version_py(versionscript_source, output_format="python") of
\* version_pioneer.api: the versionfile of what the versionscript computes
exec_version_py_python(script, repo) == version_dict_to_str_python(repo)

\* the VersionDicts a versionscript may compute
D_release ==
    [version |-> T_1_2_3, full_revisionid |-> Commit(1), dirty |-> "False",
     error |-> None, date |-> D_iso]
D_dirty ==
    [version |-> V_1_2_3_4_g1abcdef_dirty, full_revisionid |-> Commit(2),
     dirty |-> "True", error |-> None, date |-> D_iso]
D_error ==
    [version |-> S_unknown, full_revisionid |-> Commit(1), dirty |-> "None",
     error |-> S_parse_error, date |-> None]

RepoDicts == {D_release, D_dirty, D_error, UnknownDict}

Hooks == {"hatchling.initialize", "build_py.run", "build_ext.run"}

\* the modes a hook may run in: standard, or the one it returns early for
Modes(hook) ==
    IF hook = "build_ext.run" THEN {"standard", "inplace"}
    ELSE {"standard", "editable"}

ConfigKeys == {"versionfile-source", "versionfile-build", "versionscript-source"}

InitBuild ==
    /\ pc = "build"
    /\ entry \in Hooks
    /\ cfg \in [keys : SUBSET ConfigKeys, mode : Modes(entry)]
    /\ world \in [script : {LegacyScript, AccessorScript},
                  repo : RepoDicts,
                  build_lib : {NoFile},
                  force_include : {NoFile},
                  at_build : {NoDict},
                  build_py_ran : BOOLEAN]
    /\ pieces = NoPieces
    /\ tried = <<>>
    /\ signals = <<>>
    /\ result = NoDict
    /\ raised = "none"
    /\ rendererRun = "none"

\* a hook ends: e the exception that leaves it, w the world it leaves
HookEnds(e, w) ==
    /\ raised' = e
    /\ pc' = IF e = "none" THEN "built" ELSE "failed"
    /\ world' = w
    /\ UNCHANGED <<entry, cfg, pieces, tried, signals, result, rendererRun>>

\* VersionPioneerBuildHook.initialize once versionfile-build was found: d is
\* what exec_version_py_code_to_get_version_dict gave for the versionscript
HatchlingReplace(d) ==
    IF d.exc # "none" THEN HookEnds(d.exc, world)
    ELSE HookEnds("none",
                  [world EXCEPT !.at_build = d.dict,
                                !.force_include =
                                    version_dict_to_str_python(d.dict)])

\* VersionPioneerBuildHook.initialize(version, build_data)
HatchlingInitialize ==
    /\ pc = "build"
    /\ entry = "hatchling.initialize"
    /\ IF cfg.mode = "editable" THEN HookEnds("none", world)
       ELSE IF get_toml_value(cfg.keys, "versionfile-source") # "none"
       THEN HookEnds(get_toml_value(cfg.keys, "versionfile-source"), world)
       ELSE IF Subscript(cfg.keys, "versionfile-build") = "KeyError"
       THEN HookEnds("none", world)
       ELSE HatchlingReplace(
                exec_version_py_code_to_get_version_dict(world.script,
                                                         world.repo))

\* CmdBuildPy.run / CmdBuildExt.run from find_pyproject_toml() on, w the
\* world the base command has left
SetuptoolsReplace(w) ==
    IF get_toml_value(cfg.keys, "versionfile-build") # "none"
    THEN HookEnds(get_toml_value(cfg.keys, "versionfile-build"), w)
    ELSE IF get_toml_value(cfg.keys, "versionscript-source") # "none"
    THEN HookEnds(get_toml_value(cfg.keys, "versionscript-source"), w)
    ELSE IF entry = "build_ext.run" /\ w.build_lib = NoFile
    THEN HookEnds("none", w)
    ELSE HookEnds("none",
                  [w EXCEPT !.at_build = w.repo,
                            !.build_lib =
                                exec_version_py_python(w.script, w.repo)])

\* CmdBuildPy.run: _build_py.run copies the package to build_lib, but not in
\* editable mode
BuildPyRun ==
    /\ pc = "build"
    /\ entry = "build_py.run"
    /\ IF cfg.mode = "editable" THEN HookEnds("none", world)
       ELSE SetuptoolsReplace([world EXCEPT !.build_lib = world.script])

\* CmdBuildExt.run: build_lib holds the package when build_py has run
BuildExtRun ==
    /\ pc = "build"
    /\ entry = "build_ext.run"
    /\ IF cfg.mode = "inplace" THEN HookEnds("none", world)
       ELSE SetuptoolsReplace(
                [world EXCEPT !.build_lib = IF world.build_py_ran
                                            THEN world.script ELSE NoFile])

\* commits or working-tree changes after the build
RepositoryChanges ==
    /\ pc = "built"
    /\ \E d \in RepoDicts \ {world.repo} : world' = [world EXCEPT !.repo = d]
    /\ UNCHANGED <<pc, entry, cfg, pieces, tried, signals, result, raised,
                   rendererRun>>

\* the _version.py of the built package
Packaged ==
    IF entry = "hatchling.initialize"
    THEN IF world.force_include # NoFile THEN world.force_include
         ELSE world.script
    ELSE world.build_lib

\* the packaged _version.py has been executed by reader with outcome r
Executed(reader, r) ==
    /\ pc' = "read"
    /\ tried' = <<reader>>
    /\ result' = r.dict
    /\ raised' = r.exc
    /\ UNCHANGED <<entry, cfg, world, pieces, signals, rendererRun>>

\* exec_version_py_code_to_get_version_dict(<packaged _version.py>)
ExecVersionPy ==
    /\ pc = "built"
    /\ Packaged # NoFile
    /\ Executed("exec_version_py_code_to_get_version_dict",
                exec_version_py_code_to_get_version_dict(Packaged, world.repo))

\* exec_version_script_code(<packaged _version.py>)
ExecVersionScript ==
    /\ pc = "built"
    /\ Packaged # NoFile
    /\ Executed("exec_version_script_code",
                exec_version_script_code(Packaged, world.repo))

NextBuild ==
    \/ HatchlingInitialize
    \/ BuildPyRun
    \/ BuildExtRun
    \/ RepositoryChanges
    \/ ExecVersionPy
    \/ ExecVersionScript

SpecBuild == InitBuild /\ [][NextBuild]_vars

(***************************************************************************)
(* Properties of the build hooks (checked under SpecBuild)                 *)
(***************************************************************************)

\* a hook has written a versionfile and the packaged _version.py has been
\* executed with exec_version_py_code_to_get_version_dict
VersionfileExecuted ==
    /\ pc = "read"
    /\ tried = <<"exec_version_py_code_to_get_version_dict">>
    /\ Packaged.kind = "versionfile"

\* C22: the versionfile a build hook writes gives, executed with
\* exec_version_py_code_to_get_version_dict, the version dict the
\* versionscript gave at build time, whatever the repository has become.
C22_Persistence ==
    VersionfileExecuted =>
        /\ raised = "none"
        /\ result = world.at_build

\* the hook has ended in a project without versionfile-build that has the
\* key naming the versionscript of its backend
NoVersionfileBuild ==
    /\ pc # "build"
    /\ ~("versionfile-build" \in cfg.keys)
    /\ IF entry = "hatchling.initialize" THEN "versionfile-source" \in cfg.keys
       ELSE "versionscript-source" \in cfg.keys

\* C23: without versionfile-build the hatchling and setuptools hooks do not
\* fail the build and leave _version.py as it is: no versionfile is written
\* or force-included.
C23_NoVersionfileBuild ==
    NoVersionfileBuild =>
        /\ pc # "failed"
        /\ world.force_include = NoFile
        /\ world.build_lib \in {NoFile, world.script}
        /\ world.at_build = NoDict


(***************************************************************************)
(* The process runner, as the git strategy has used it.                    *)
(***************************************************************************)

\* the git strategy has been tried: _run_command has run `git rev-parse
\* --git-dir` in the git world
GitTried == InList(tried, "git")

\* launch outcomes that let a command run, and that say it does not exist
Launchable(launches) == {i \in 1..Len(launches) : launches[i] = "ok"}
Found(launches) == {i \in 1..Len(launches) : launches[i] # "ENOENT"}
Least(S) == CHOOSE i \in S : \A k \in S : i <= k

\* r is what the claim lets _run_command return: the outcome of the first
\* candidate that can be launched, (None, None) only when there is none
FirstLaunchable(launches, proc, r) ==
    IF Launchable(launches) # {}
    THEN r.cmd = Least(Launchable(launches)) /\ r.rc = proc.returncode
    ELSE r.out = None /\ r.rc = NoRc

\* the first candidate that exists launches
Launches(launches) ==
    Found(launches) # {} /\ launches[Least(Found(launches))] = "ok"

\* r is the outcome of the first candidate that exists when that candidate
\* launches, and (None, None) when it does not launch or none exists
FirstFound(launches, proc, r) ==
    IF Launches(launches)
    THEN r.cmd = Least(Found(launches)) /\ r.rc = proc.returncode
    ELSE r.out = None /\ r.rc = NoRc

\* C26 as stated: _run_command uses the first candidate that launches, and
\* returns (None, None) only when no candidate can be launched
C26_Original ==
    GitTried =>
        FirstLaunchable(world.git.launches,
                        GitProc(world.git, "rev-parse --git-dir", None),
                        Runner(world.git, "rev-parse --git-dir", None))

\* C26: _run_command tries the candidates in order and skips those that do
\* not exist (ENOENT); it uses the first one that exists when it launches,
\* and returns (None, None), without raising, when that one fails to launch
\* for another reason or when no candidate exists
C26_LaunchOrder ==
    GitTried =>
        FirstFound(world.git.launches,
                   GitProc(world.git, "rev-parse --git-dir", None),
                   Runner(world.git, "rev-parse --git-dir", None))

\* the first candidate does not exist and the second has run the command
C26_Witness ==
    /\ GitTried
    /\ world.git.launches = <<"ENOENT", "ok">>
    /\ Runner(world.git, "rev-parse --git-dir", None).cmd = 2
    /\ Runner(world.git, "rev-parse --git-dir", None).rc = 0

\* the commands from_git runs one after the other in every repository
FirstCommands ==
    {"rev-parse --git-dir", "describe", "rev-parse HEAD",
     "rev-parse --abbrev-ref HEAD"}

\* the git strategy has run a command that exited with a non-zero code
CommandFailed ==
    /\ GitTried
    /\ world.git.fail \in FirstCommands
    /\ Launches(world.git.launches)
    /\ GitProc(world.git, world.git.fail, None).returncode # 0

\* C27 as stated: of a command that exits with a non-zero code _run_command
\* returns the trimmed stdout together with the exit code
C27_Original ==
    CommandFailed =>
        /\ Runner(world.git, world.git.fail, None).out =
               Strip(GitProc(world.git, world.git.fail, None).stdout)
        /\ Runner(world.git, world.git.fail, None).rc =
               GitProc(world.git, world.git.fail, None).returncode

\* C27: of a command that exits with a non-zero code _run_command returns
\* None in place of the output, together with the exit code; the trimmed
\* stdout is returned only with exit code 0
C27_FailedOutput ==
    /\ CommandFailed =>
           /\ Runner(world.git, world.git.fail, None).out = None
           /\ Runner(world.git, world.git.fail, None).rc =
                  GitProc(world.git, world.git.fail, None).returncode
    /\ (GitTried /\ world.git.fail = "none" /\ Launches(world.git.launches)) =>
           /\ Runner(world.git, "describe", None).out =
                  Strip(GitProc(world.git, "describe", None).stdout)
           /\ Runner(world.git, "describe", None).rc = 0

\* `git rev-parse --abbrev-ref HEAD` has written HEAD and exited with 128,
\* and from_git has given up
C27_Witness ==
    /\ CommandFailed
    /\ world.git.fail = "rev-parse --abbrev-ref HEAD"
    /\ Strip(GitProc(world.git, world.git.fail, None).stdout) = S_HEAD
    /\ Runner(world.git, world.git.fail, None).rc = 128
    /\ InList(signals, "NotThisMethodError")


\* the branches `git branch --contains` lists in the git world g: of every
\* line that does not name the detached state, what follows the two-column
\* marker
ListedBranches(g) ==
    LET lines == SplitLines(g.containing)
        named == SelectSeq(lines, LAMBDA l : ~HasChar(l, "("))
    IN  [k \in 1..Len(named) |-> DropFirst(named[k], 2)]

\* the branch the claim gives a record made in the git world g
ResolvedBranch(g) ==
    IF g.abbrev # S_HEAD THEN g.abbrev
    ELSE IF InList(ListedBranches(g), S_master) THEN S_master
    ELSE IF InList(ListedBranches(g), S_main) THEN S_main
    ELSE IF Len(ListedBranches(g)) = 0 THEN None
    ELSE ListedBranches(g)[1]

\* C28: the record from_git returns has the branch `git rev-parse
\* --abbrev-ref HEAD` reports; when that is 'HEAD', it has 'master' if
\* `git branch --contains` lists it, else 'main' if listed, else the first
\* branch listed, and None when none is listed
C28_BranchResolution ==
    FromGitReturned => pieces.branch = ResolvedBranch(world.git)

\* a detached HEAD on a commit of feat, main and master is given master
C28_Witness ==
    /\ FromGitReturned
    /\ world.git.abbrev = S_HEAD
    /\ ListedBranches(world.git) = <<S_feat, S_main, S_master>>
    /\ pieces.branch = S_master


\* get_version_from_parentdir has ended without an explicit prefix, having
\* read the pyproject.toml of the project root
ParentdirFromPyproject ==
    /\ entry = NewResolver
    /\ cfg.parentdir_prefix = None
    /\ Len(tried) > 0
    /\ tried[Len(tried)] = "parentdir"
    /\ world.fs.tomllib
    /\ _find_root_dir_with_file(world.fs, {"pyproject.toml", "setup.cfg",
                                           "setup.py"}) # 0
    /\ "pyproject.toml" \in
           world.fs.dirs[_find_root_dir_with_file(
               world.fs, {"pyproject.toml", "setup.cfg", "setup.py"})].files

\* the prefixes the claim lets get_version_from_parentdir try, in order
UrlPrefix(url) ==
    IF url # None /\ TruthyStr(get_prefix_from_source_url(url))
    THEN <<get_prefix_from_source_url(url)>>
    ELSE <<>>

ClaimedPrefixes(fs) ==
    UrlPrefix(fs.pyproject.urls.homepage) \o UrlPrefix(fs.pyproject.urls.Homepage)
        \o UrlPrefix(fs.pyproject.urls.source) \o UrlPrefix(fs.pyproject.urls.Source)
        \o (IF fs.pyproject.name # None THEN <<fs.pyproject.name \o <<"-">>>>
            ELSE <<>>)

\* the version of the first prefix of ClaimedPrefixes that gives one
ClaimedVersion(fs, root) ==
    LET hits == {k \in 1..Len(ClaimedPrefixes(fs)) :
                    try_parentdir(fs, root, ClaimedPrefixes(fs)[k]) # NoDict}
    IN  IF hits = {} THEN NoDict
        ELSE try_parentdir(fs, root, ClaimedPrefixes(fs)[Least(hits)])

\* C29: without an explicit prefix get_version_from_parentdir returns the
\* version of the first of the prefixes derived from project.urls.homepage,
\* Homepage, source, Source and then project.name that gives one, and is
\* not applicable only when none of them does
C29_PrefixOrder ==
    ParentdirFromPyproject =>
        LET claimed == ClaimedVersion(
                world.fs,
                _find_root_dir_with_file(world.fs, {"pyproject.toml",
                                                    "setup.cfg", "setup.py"}))
        IN  IF claimed # NoDict
            THEN pc = "done" /\ raised = "none" /\ result = claimed
            ELSE signals[Len(signals)] = "NotThisMethodError"


\* the styles that have a dirty marker
DirtyStyles ==
    {"pep440", "pep440-master", "pep440-branch", "pep440-post",
     "pep440-post-branch", "git-describe", "git-describe-long"}

S_dirty == <<"d", "i", "r", "t", "y">>

\* render has returned for a style with a dirty marker and a record with no
\* error of a dirty working tree
RenderedDirty ==
    /\ pc = "done"
    /\ entry = "render"
    /\ raised = "none"
    /\ cfg.style \in DirtyStyles
    /\ pieces.error = None
    /\ pieces.dirty

\* C30: the version rendered of an error-free dirty record by a style with a
\* dirty marker ends with 'dirty', and the VersionDict says dirty = true
C30_DirtyVisible ==
    RenderedDirty =>
        /\ result.dirty = "True"
        /\ EndsWith(result.version, S_dirty)

====
